---- MODULE Spec2Model ----
(***************************************************************************)
(* Model of the schema combinator engine of footgun (src/src/schema.ts)    *)
(* together with the Result/Option/List containers and the type            *)
(* predicates of src/src/util.ts it is built on.                           *)
(*                                                                         *)
(* JavaScript values are records tagged by "t":                            *)
(*   undefined, null, boolean (b), number (k, n), string (s: sequence of   *)
(*   one-character strings), symbol (d), function (fname),                 *)
(*   array (id, a), object (id, proto, keys, f), date (id, time),          *)
(*   List (id, a), Option (id, value).                                     *)
(* "id" is the identity of a heap object: two values alias exactly when    *)
(* their ids are equal.  parse threads the next free id so that every      *)
(* object the code creates is distinct from every object that exists.      *)
(***************************************************************************)
EXTENDS Integers, Sequences, FiniteSets, TLC

VARIABLES
  schema,        \* the schema under use
  input,         \* the input of the last parse call
  outcome,       \* the outcome of the last parse call
  nextId,        \* the next free object id after the last parse call
  baseId,        \* the first object id free for the objects parse creates
  calls,         \* the number of parse calls made
  lenientDates,  \* whether the engine's Date.parse reads non-standard strings
  derived,       \* what the last pick, omit, intersection or coerce call gave
  request,       \* that call: the constructor and its arguments as handed over
  touched,       \* whether the caller changed a Date of the last parse call since
  piped,         \* the last run of a pipeline on its own: value, result, pipes invoked
  option,        \* the Option last made, how it was made and the value given
  unwrapped      \* what the last unwrap() of that Option did

vars ==
  <<schema, input, outcome, nextId, baseId, calls, lenientDates, derived, request, touched,
    piped, option, unwrapped>>

(***************************************************************************)
(* Bounds of the model.                                                    *)
(***************************************************************************)
MaxCalls == 2
MaxNum == 1
MaxLen == 2

(***************************************************************************)
(* JavaScript values.                                                      *)
(***************************************************************************)
Undefined == [t |-> "undefined"]
Null == [t |-> "null"]
Bool(b) == [t |-> "boolean", b |-> b]
Num(n) == [t |-> "number", k |-> "fin", n |-> n]
NaN == [t |-> "number", k |-> "nan", n |-> 0]
PosInfinity == [t |-> "number", k |-> "inf", n |-> 0]
NegInfinity == [t |-> "number", k |-> "ninf", n |-> 0]
Str(s) == [t |-> "string", s |-> s]
Sym(d) == [t |-> "symbol", d |-> d]
Fn(name) == [t |-> "function", fname |-> name]
Arr(id, a) == [t |-> "array", id |-> id, a |-> a]
Obj(id, proto, keys, f) == [t |-> "object", id |-> id, proto |-> proto, keys |-> keys, f |-> f]
DateV(id, time) == [t |-> "date", id |-> id, time |-> time]

Range(seq) == {seq[i] : i \in 1..Len(seq)}

\* Object.getPrototypeOf(input), by name of the prototype object
GetPrototypeOf(x) ==
  CASE x.t = "object" -> x.proto
    [] x.t = "array" -> "Array.prototype"
    [] x.t = "date" -> "Date.prototype"
    [] x.t = "string" -> "String.prototype"
    [] x.t = "number" -> "Number.prototype"
    [] x.t = "boolean" -> "Boolean.prototype"
    [] x.t = "symbol" -> "Symbol.prototype"
    [] x.t = "function" -> "Function.prototype"
    [] x.t = "List" -> "List.prototype"
    [] x.t = "Option" -> "Option.prototype"
    [] OTHER -> "none"

(***************************************************************************)
(* Type predicates, src/src/util.ts.                                       *)
(***************************************************************************)
isString(x) == x.t = "string"
isNumber(x) == x.t = "number"
isBoolean(x) == x.t = "boolean"
isArray(x) == x.t = "array"
isUndefined(x) == x.t = "undefined"
isNull(x) == x.t = "null"
isDate(x) == x.t = "date"

\* a test by typeof: every non-null value of type "object" passes
isObject_typeof(x) == x.t \in {"object", "array", "date", "List", "Option"}

\* a test against Object.prototype alone: an object without a prototype fails
isObject_prototypeOnly(x) ==
  IF isNull(x) \/ isUndefined(x) THEN FALSE
  ELSE GetPrototypeOf(x) = "Object.prototype"

isObject(x) ==
  IF isNull(x) \/ isUndefined(x) THEN FALSE
  ELSE LET proto == GetPrototypeOf(x)
       IN proto = "null" \/ proto = "Object.prototype"

\* a test for undefined alone: null counts as a value
isDefined_undefinedOnly(x) == ~isUndefined(x)

isDefined(x) == ~isNull(x) /\ ~isUndefined(x)

\* Number.isFinite on a number value
NumberIsFinite(x) == x.t = "number" /\ x.k = "fin"

(***************************************************************************)
(* Strings: String.prototype.trim / toLowerCase / toUpperCase and the      *)
(* conversions ToNumber and ToString of the language, which the COERCE     *)
(* table of schema.ts calls as Number(input) and String(input).            *)
(***************************************************************************)
IsWhiteSpace(c) == c = " "

RECURSIVE TrimStart(_)
TrimStart(s) ==
  IF s # <<>> /\ IsWhiteSpace(Head(s)) THEN TrimStart(Tail(s)) ELSE s

RECURSIVE TrimEnd(_)
TrimEnd(s) ==
  IF s # <<>> /\ IsWhiteSpace(s[Len(s)]) THEN TrimEnd(SubSeq(s, 1, Len(s) - 1)) ELSE s

StringTrim(s) == TrimEnd(TrimStart(s))

\* the letters the strings of the model are written with
UpperChars == <<"A", "B", "C", "E", "F", "N", "O", "R", "S", "T", "U", "X", "Y">>
LowerChars == <<"a", "b", "c", "e", "f", "n", "o", "r", "s", "t", "u", "x", "y">>

LowerChar(c) ==
  IF \E i \in 1..Len(UpperChars) : UpperChars[i] = c
  THEN LowerChars[CHOOSE i \in 1..Len(UpperChars) : UpperChars[i] = c]
  ELSE c

UpperChar(c) ==
  IF \E i \in 1..Len(LowerChars) : LowerChars[i] = c
  THEN UpperChars[CHOOSE i \in 1..Len(LowerChars) : LowerChars[i] = c]
  ELSE c

StringToLowerCase(s) == [i \in 1..Len(s) |-> LowerChar(s[i])]
StringToUpperCase(s) == [i \in 1..Len(s) |-> UpperChar(s[i])]

DigitChars == <<"0", "1", "2", "3", "4", "5", "6", "7", "8", "9">>
IsDigit(c) == \E i \in 1..10 : DigitChars[i] = c
DigitValue(c) == (CHOOSE i \in 1..10 : DigitChars[i] = c) - 1

RECURSIVE DigitsValue(_, _)
DigitsValue(s, acc) ==
  IF s = <<>> THEN acc ELSE DigitsValue(Tail(s), 10 * acc + DigitValue(Head(s)))

\* StringToNumber: white space is stripped, the empty string is 0, a decimal
\* integer literal with an optional sign is its value, anything else is NaN
\* (the strings of the model hold no ".", no exponent, no 0x/0o/0b prefix and
\* never spell Infinity).
StringToNumber(s) ==
  LET t == StringTrim(s)
      body == IF t # <<>> /\ Head(t) \in {"-", "+"} THEN Tail(t) ELSE t
  IN IF t = <<>> THEN Num(0)
     ELSE IF body # <<>> /\ \A i \in 1..Len(body) : IsDigit(body[i])
          THEN IF Head(t) = "-" THEN Num(0 - DigitsValue(body, 0)) ELSE Num(DigitsValue(body, 0))
          ELSE NaN

RECURSIVE NatToChars(_)
NatToChars(n) ==
  IF n < 10 THEN <<DigitChars[n + 1]>>
  ELSE NatToChars(n \div 10) \o <<DigitChars[(n % 10) + 1]>>

\* Number::toString for the numbers of the model
NumberToString(x) ==
  CASE x.k = "nan" -> <<"N", "a", "N">>
    [] x.k = "inf" -> <<"I", "n", "f", "i", "n", "i", "t", "y">>
    [] x.k = "ninf" -> <<"-", "I", "n", "f", "i", "n", "i", "t", "y">>
    [] OTHER -> IF x.n < 0 THEN <<"-">> \o NatToChars(0 - x.n) ELSE NatToChars(x.n)

ObjectObject == <<"[", "o", "b", "j", "e", "c", "t", " ", "O", "b", "j", "e", "c", "t", "]">>

\* A conversion either completes with a value or throws a TypeError.
Completed(v) == [thrown |-> FALSE, value |-> v]
Thrown == [thrown |-> TRUE, value |-> Undefined]

\* ToString(x) of the language.  explicit = TRUE is the call String(x), which
\* describes a symbol instead of throwing.
RECURSIVE ToStringJS(_, _)
RECURSIVE ArrayJoin(_, _)
ArrayJoin(a, i) ==
  IF i > Len(a) THEN Completed(<<>>)
  ELSE LET el == IF isDefined(a[i]) THEN ToStringJS(a[i], FALSE) ELSE Completed(<<>>)
           rest == ArrayJoin(a, i + 1)
       IN IF el.thrown \/ rest.thrown THEN Thrown
          ELSE Completed((IF i > 1 THEN <<",">> ELSE <<>>) \o el.value \o rest.value)

ToStringJS(x, explicit) ==
  CASE x.t = "undefined" -> Completed(<<"u", "n", "d", "e", "f", "i", "n", "e", "d">>)
    [] x.t = "null" -> Completed(<<"n", "u", "l", "l">>)
    [] x.t = "boolean" -> Completed(IF x.b THEN <<"t", "r", "u", "e">> ELSE <<"f", "a", "l", "s", "e">>)
    [] x.t = "number" -> Completed(NumberToString(x))
    [] x.t = "string" -> Completed(x.s)
    [] x.t = "symbol" -> IF explicit THEN Completed(<<"S", "y", "m", "b", "o", "l", "(", x.d, ")">>)
                         ELSE Thrown
    [] x.t = "array" -> ArrayJoin(x.a, 1)
    [] x.t = "object" -> IF x.proto = "null" THEN Thrown ELSE Completed(ObjectObject)
    [] x.t = "date" -> Completed(<<"D", "a", "t", "e">>)   \* the date's text, abbreviated
    [] x.t = "function" -> Completed(<<"f", "u", "n", "c", "t", "i", "o", "n">>)
    [] OTHER -> Completed(ObjectObject)

\* ToNumber(x) of the language: a symbol and an object without valueOf and
\* toString (null prototype) throw a TypeError.
ToNumberJS(x) ==
  CASE x.t = "undefined" -> Completed(NaN)
    [] x.t = "null" -> Completed(Num(0))
    [] x.t = "boolean" -> Completed(IF x.b THEN Num(1) ELSE Num(0))
    [] x.t = "number" -> Completed(x)
    [] x.t = "string" -> Completed(StringToNumber(x.s))
    [] x.t = "symbol" -> Thrown
    [] x.t = "date" -> Completed(x.time)
    [] OTHER -> LET str == ToStringJS(x, FALSE)
                IN IF str.thrown THEN Thrown ELSE Completed(StringToNumber(str.value))

\* Boolean(x)
ToBooleanJS(x) ==
  CASE x.t = "undefined" -> FALSE
    [] x.t = "null" -> FALSE
    [] x.t = "boolean" -> x.b
    [] x.t = "number" -> ~(x.k = "nan" \/ (x.k = "fin" /\ x.n = 0))
    [] x.t = "string" -> x.s # <<>>
    [] OTHER -> TRUE

(***************************************************************************)
(* Result<T, string> of a pipe, and the pipes of schema.ts.  A pipe is a   *)
(* record naming the step, its bounds and its message.                     *)
(***************************************************************************)
PipeOk(v) == [ok |-> TRUE, value |-> v, message |-> ""]
PipeErr(m) == [ok |-> FALSE, value |-> Undefined, message |-> m]

minLength(n, message) == [p |-> "minLength", a |-> n, b |-> 0, message |-> message]
maxLength(n, message) == [p |-> "maxLength", a |-> n, b |-> 0, message |-> message]
trim == [p |-> "trim", a |-> 0, b |-> 0, message |-> ""]
lowercase == [p |-> "lowercase", a |-> 0, b |-> 0, message |-> ""]
uppercase == [p |-> "uppercase", a |-> 0, b |-> 0, message |-> ""]
min(n, message) == [p |-> "min", a |-> n, b |-> 0, message |-> message]
max(n, message) == [p |-> "max", a |-> n, b |-> 0, message |-> message]
clamp(lo, hi) == [p |-> "clamp", a |-> lo, b |-> hi, message |-> ""]

MinLengthMessage(n) == "Expected string to have a minimum of " \o ToString(n) \o " characters"
MaxLengthMessage(n) == "Expected string to have a maximum of " \o ToString(n) \o " characters"
MinMessage(n) == "Expected number to be at minimum " \o ToString(n)
MaxMessage(n) == "Expected number to be at maximum " \o ToString(n)

MathMin(a, b) == IF a < b THEN a ELSE b
\* the smaller of the two: Math.min written where Math.max belongs
MathMax_smaller(a, b) == IF a < b THEN a ELSE b

MathMax(a, b) == IF a > b THEN a ELSE b

\* pipe(input): the number pipes receive finite numbers only (number.parse
\* rejects the others before the pipeline runs)
ApplyPipe(pipe, v) ==
  CASE pipe.p = "minLength" -> IF Len(v.s) < pipe.a THEN PipeErr(pipe.message) ELSE PipeOk(v)
    [] pipe.p = "maxLength" -> IF Len(v.s) > pipe.a THEN PipeErr(pipe.message) ELSE PipeOk(v)
    [] pipe.p = "trim" -> PipeOk(Str(StringTrim(v.s)))
    [] pipe.p = "lowercase" -> PipeOk(Str(StringToLowerCase(v.s)))
    [] pipe.p = "uppercase" -> PipeOk(Str(StringToUpperCase(v.s)))
    [] pipe.p = "min" -> IF v.n < pipe.a THEN PipeErr(pipe.message) ELSE PipeOk(v)
    [] pipe.p = "max" -> IF v.n > pipe.a THEN PipeErr(pipe.message) ELSE PipeOk(v)
    [] pipe.p = "clamp" -> PipeOk(Num(MathMax(pipe.a, MathMin(pipe.b, v.n))))

\* runPipeline: acc is the value so far, i the number of pipes already run;
\* the result also reports how many pipes were invoked (ran)
RECURSIVE runPipelineFrom(_, _, _)

\* a loop that notes a failure and goes on: every pipe is invoked, each on
\* the last value that passed, and the last failure is the one reported
runPipelineFrom_lastFailure(acc, pipeline, i) ==
  IF i >= Len(pipeline) THEN [res |-> PipeOk(acc), ran |-> i]
  ELSE LET result == ApplyPipe(pipeline[i + 1], acc)
           rest == runPipelineFrom(IF result.ok THEN result.value ELSE acc, pipeline, i + 1)
       IN IF result.ok \/ ~rest.res.ok THEN rest ELSE [res |-> result, ran |-> rest.ran]

runPipelineFrom(acc, pipeline, i) ==
  IF i >= Len(pipeline) THEN [res |-> PipeOk(acc), ran |-> i]
  ELSE LET result == ApplyPipe(pipeline[i + 1], acc)
       IN IF ~result.ok THEN [res |-> result, ran |-> i + 1]
          ELSE runPipelineFrom(result.value, pipeline, i + 1)

runPipeline(value, pipeline) == runPipelineFrom(value, pipeline, 0)

(***************************************************************************)
(* The outcome of one parse call: Ok(value), Err(ParseError) or an         *)
(* exception leaving parse.  next is the next free object id after the     *)
(* call; log lists, in call order, every schema.parse invoked during the   *)
(* call: the position of its input below the top-level input (at), the     *)
(* position of the schema below the top-level schema (sp), the schema's    *)
(* name, the input it was handed and how the invocation ended.             *)
(***************************************************************************)
ParseError(path, message, in) == [path |-> path, message |-> message, input |-> in]
NoError == ParseError(<<>>, "", Undefined)

OkR(v, h, log) == [kind |-> "ok", value |-> v, err |-> NoError, next |-> h, log |-> log]
ErrR(e, h, log) == [kind |-> "err", value |-> Undefined, err |-> e, next |-> h, log |-> log]
ThrowR(h, log) == [kind |-> "throw", value |-> Undefined, err |-> NoError, next |-> h, log |-> log]

\* an error whose path is an array kept from one call to the next: it still
\* holds the segments of the failure before
createErr_sharedPath(message, in, h) ==
  ErrR(ParseError(outcome.err.path, message, in), h, <<>>)

createErr(message, in, h) == ErrR(ParseError(<<>>, message, in), h, <<>>)

\* a path that grows at its end: err.path.push(segment)
unshiftPath_push(err, segment) == [err EXCEPT !.path = @ \o <<segment>>]

\* err.path.unshift(segment)
unshiftPath(err, segment) == [err EXCEPT !.path = <<segment>> \o @]

LogEntry(at, sp, name, in, kind) ==
  [at |-> at, sp |-> sp, name |-> name, input |-> in, kind |-> kind]

(***************************************************************************)
(* The COERCE table.  Each entry gives the coerced value, or throws; the   *)
(* date and list entries may create an object.                             *)
(***************************************************************************)
\* Names every object inherits from Object.prototype
ObjectPrototypeKeys == {"constructor", "toString", "valueOf", "hasOwnProperty"}

Coerced(v, h) == [thrown |-> FALSE, value |-> v, next |-> h]
CoerceThrown(h) == [thrown |-> TRUE, value |-> Undefined, next |-> h]

COERCE_number(in, h) ==
  LET n == ToNumberJS(in) IN IF n.thrown THEN CoerceThrown(h) ELSE Coerced(n.value, h)

COERCE_string(in, h) ==
  LET str == ToStringJS(in, TRUE) IN IF str.thrown THEN CoerceThrown(h) ELSE Coerced(Str(str.value), h)

\* Date.parse: a four-digit year is the one form of the date-time string format
\* the strings of the model can spell; for any other string the language lets
\* the engine apply its own heuristics, here: digits only are read as a year
\* by a lenient engine and nothing else is recognised.
DateParse(s, lenient) ==
  IF s # <<>> /\ (\A i \in 1..Len(s) : IsDigit(s[i])) /\ (Len(s) = 4 \/ lenient)
  THEN Num(DigitsValue(s, 0))
  ELSE NaN

\* TimeClip of new Date(number)
TimeClip(x) == IF x.k = "fin" THEN x ELSE NaN

COERCE_date(in, h, lenient) ==
  IF isString(in) THEN Coerced(DateV(h, DateParse(in.s, lenient)), h + 1)
  ELSE IF isNumber(in) THEN Coerced(DateV(h, TimeClip(in)), h + 1)
  ELSE Coerced(in, h)

TruthyWords == {<<"o", "n">>, <<"y", "e", "s">>, <<"t", "r", "u", "e">>}

\* a coercion that takes the listed words only for true
COERCE_boolean_wordsOnly(in, h) ==
  Coerced(Bool(isString(in) /\ StringToLowerCase(StringTrim(in.s)) \in TruthyWords), h)

COERCE_boolean(in, h) ==
  Coerced(Bool((isString(in) /\ StringToLowerCase(StringTrim(in.s)) \in TruthyWords)
               \/ ToBooleanJS(in)), h)

COERCE_list(in, h) ==
  IF isArray(in) THEN Coerced(in, h) ELSE Coerced(Arr(h, <<in>>), h + 1)

CoerceNames == {"number", "string", "date", "boolean", "list"}

ObjectUndefined ==
  <<"[", "o", "b", "j", "e", "c", "t", " ", "U", "n", "d", "e", "f", "i", "n", "e", "d", "]">>

\* The functions COERCE inherits from Object.prototype, called as coerceFn
\* is: with one argument and no receiver.  toString describes the missing
\* receiver; constructor is Object(input), which gives a new object for null
\* and undefined, the input for an object and a wrapper object (an instance
\* of Number, String, Boolean or Symbol, here an object of a class) for a
\* primitive; the others throw a TypeError for want of a receiver.
COERCE_inherited(name, in, h) ==
  CASE name = "toString" -> Coerced(Str(ObjectUndefined), h)
    [] name = "constructor" ->
         IF in.t \in {"null", "undefined"} THEN Coerced(Obj(h, "Object.prototype", <<>>, <<>>), h + 1)
         ELSE IF in.t \in {"boolean", "number", "string", "symbol"}
         THEN Coerced(Obj(h, "Class.prototype", <<>>, <<>>), h + 1)
         ELSE Coerced(in, h)
    [] OTHER -> CoerceThrown(h)

COERCE(name, in, h, lenient) ==
  CASE name = "number" -> COERCE_number(in, h)
    [] name = "string" -> COERCE_string(in, h)
    [] name = "date" -> COERCE_date(in, h, lenient)
    [] name = "boolean" -> COERCE_boolean(in, h)
    [] name = "list" -> COERCE_list(in, h)
    [] OTHER -> COERCE_inherited(name, in, h)

(***************************************************************************)
(* Schemas.  A schema is a record: name is the schema's name property,     *)
(* kind tells which constructor built its parse function, the other fields *)
(* are what that parse function closes over.                               *)
(***************************************************************************)
string(pipeline, message) ==
  [kind |-> "string", name |-> "string", pipeline |-> pipeline, message |-> message]

number(pipeline, message) ==
  [kind |-> "number", name |-> "number", pipeline |-> pipeline, message |-> message]

boolean(message) == [kind |-> "boolean", name |-> "boolean", message |-> message]

date(message) == [kind |-> "date", name |-> "date", message |-> message]

list(item, message) == [kind |-> "list", name |-> "list", item |-> item, message |-> message]

\* A shape is an object: id is its identity, keys its own property names in
\* creation order, f the child schema of each.
Shape(id, keys, f) == [id |-> id, keys |-> keys, f |-> f]

object(shape, message) ==
  [kind |-> "object", name |-> "object", shape |-> shape, message |-> message]

\* optional and defaulted spread the wrapped schema: they keep its name
optional(inner) == [kind |-> "optional", name |-> inner.name, inner |-> inner]

defaulted(inner, defaultValue) ==
  [kind |-> "defaulted", name |-> inner.name, inner |-> inner, defaultValue |-> defaultValue]

literal(constant, message) ==
  [kind |-> "literal", name |-> "literal", constant |-> constant, message |-> message]

tuple(schemas, message) ==
  [kind |-> "tuple", name |-> "tuple", schemas |-> schemas, message |-> message]

union(schemas, message) ==
  [kind |-> "union", name |-> "union", schemas |-> schemas, message |-> message]

\* coerce(schema): COERCE[schema.name] is read at construction, and
\* construction throws when the read gives undefined.  COERCE is an object
\* literal, so the read also finds what Object.prototype hands down.
coerce(inner) ==
  IF inner.name \in CoerceNames \cup ObjectPrototypeKeys
  THEN [kind |-> "coerce", name |-> inner.name, inner |-> inner, coerceFn |-> inner.name]
  ELSE [kind |-> "thrown", name |-> inner.name]

\* Default messages
RECURSIVE JoinNames(_, _)
JoinNames(schemas, i) ==
  IF i > Len(schemas) THEN ""
  ELSE (IF i > 1 THEN ", " ELSE "") \o schemas[i].name \o JoinNames(schemas, i + 1)

StringMessage == "Expected string"
NumberMessage == "Expected number"
BooleanMessage == "Expected boolean"
DateMessage == "Expected date"
ListMessage == "Expected array"
ObjectMessage == "Expected object"
TupleMessage(schemas) == "Expecting tuple of [" \o JoinNames(schemas, 1) \o "]"
UnionMessage(schemas) == "Expecting one of " \o JoinNames(schemas, 1)

(***************************************************************************)
(* Property access and enumeration of the language, as object.parse and    *)
(* tuple.parse use them.                                                   *)
(***************************************************************************)
MaxIndex == 3

IsIndexKey(k) == \E i \in 0..MaxIndex : ToString(i) = k
IndexOfKey(k) == CHOOSE i \in 0..MaxIndex : ToString(i) = k

\* The index keys of keys, ascending
RECURSIVE IndexKeysFrom(_, _)
IndexKeysFrom(keys, i) ==
  IF i > MaxIndex THEN <<>>
  ELSE (IF \E j \in 1..Len(keys) : keys[j] = ToString(i) THEN <<ToString(i)>> ELSE <<>>)
       \o IndexKeysFrom(keys, i + 1)

\* for (const key in shape): the own enumerable string keys, array-index keys
\* first in ascending numeric order, then the other keys in creation order
ForInKeys(shape) ==
  IndexKeysFrom(shape.keys, 0) \o SelectSeq(shape.keys, LAMBDA k : ~IsIndexKey(k))

\* input[i] on an array
GetIndex(in, i) == IF i < Len(in.a) THEN in.a[i + 1] ELSE Undefined

\* input[key] on a value that is neither null nor undefined: an own property,
\* else a property inherited from Object.prototype, else undefined; on an
\* array the index keys are its elements
GetProperty(in, key) ==
  IF in.t = "object"
  THEN IF \E j \in 1..Len(in.keys) : in.keys[j] = key THEN in.f[key]
       ELSE IF in.proto # "null" /\ key \in ObjectPrototypeKeys THEN Fn(key)
       ELSE Undefined
  ELSE IF in.t = "array" /\ IsIndexKey(key) THEN GetIndex(in, IndexOfKey(key))
  ELSE IF in.t \notin {"null", "undefined"} /\ key \in ObjectPrototypeKeys THEN Fn(key)
  ELSE Undefined

\* Object.keys(shape): the own enumerable string keys, in the order above
ObjectKeys(shape) == ForInKeys(shape)

\* target[key] = child on a shape object: a new key is created last, a key
\* that exists keeps its place
SetKey(target, key, child) ==
  [target EXCEPT !.keys = IF \E j \in 1..Len(@) : @[j] = key THEN @ ELSE Append(@, key),
                 !.f = [k \in DOMAIN @ \cup {key} |-> IF k = key THEN child ELSE @[k]]]

\* target[key] = source[key] for the keys of the list from position i on
RECURSIVE CopyKeys(_, _, _, _)
CopyKeys(target, source, keys, i) ==
  IF i > Len(keys) THEN target
  ELSE CopyKeys(SetKey(target, keys[i], source.f[keys[i]]), source, keys, i + 1)

\* Object.assign(target, ...shapes), from shapes[i] on
RECURSIVE ObjectAssign(_, _, _)
ObjectAssign(target, shapes, i) ==
  IF i > Len(shapes) THEN target
  ELSE ObjectAssign(CopyKeys(target, shapes[i], ObjectKeys(shapes[i]), 1), shapes, i + 1)

Includes(keys, key) == \E j \in 1..Len(keys) : keys[j] = key

IntersectionMessage == "Expecting object"

\* a pick that keeps every key of the shape
pick_everything(S, keys, message, id) ==
  object(CopyKeys(Shape(id, <<>>, <<>>), S.shape, ObjectKeys(S.shape), 1), message)

\* pick(schema, keys, message); id is the identity of the shape object that
\* Object.create(null) makes
pick(S, keys, message, id) ==
  object(CopyKeys(Shape(id, <<>>, <<>>), S.shape,
                  SelectSeq(ObjectKeys(S.shape), LAMBDA key : Includes(keys, key)), 1),
         message)

\* omit(schema, keys, message)
omit(S, keys, message, id) ==
  object(CopyKeys(Shape(id, <<>>, <<>>), S.shape,
                  SelectSeq(ObjectKeys(S.shape), LAMBDA key : ~Includes(keys, key)), 1),
         message)

\* an intersection in which the first schema declaring a key wins
intersection_firstWins(schemas, message, id) ==
  object(ObjectAssign(Shape(id, <<>>, <<>>),
                      [i \in 1..Len(schemas) |-> schemas[Len(schemas) + 1 - i].shape], 1),
         message)

\* an intersection that assigns into the shape of its first schema:
\* Object.assign(...shapes)
intersection_intoFirst(schemas, message, id) ==
  object(ObjectAssign(schemas[1].shape, [i \in 1..Len(schemas) |-> schemas[i].shape], 2),
         message)

\* intersection(schemas, message); id is the identity of the object literal
\* that Object.assign fills
intersection(schemas, message, id) ==
  object(ObjectAssign(Shape(id, <<>>, <<>>), [i \in 1..Len(schemas) |-> schemas[i].shape], 1),
         message)

\* Object.is(constant, input) for a number, string or boolean constant
ObjectIs(a, b) == a = b

(***************************************************************************)
(* parse.  h is the next free object id, at and sp the positions of the    *)
(* input and of the schema (kept for the log only).                        *)
(***************************************************************************)
\* Option.None is created once, when option.ts is loaded
NoneId == 0
None == [t |-> "Option", id |-> NoneId, value |-> Undefined]
Some(v, id) == [t |-> "Option", id |-> id, value |-> v]

\* List.from(arr): Array.from(iterable), new List, and Array.from in the
\* constructor create three objects; the List is the second
ListFrom(arr, h) == [value |-> [t |-> "List", id |-> h + 1, a |-> arr], next |-> h + 3]

RECURSIVE parse(_, _, _, _, _)
RECURSIVE listLoop(_, _, _, _, _, _, _, _)
RECURSIVE objectLoop(_, _, _, _, _, _, _, _, _)
RECURSIVE tupleLoop(_, _, _, _, _, _, _, _)
RECURSIVE unionLoop(_, _, _, _, _, _, _)

\* the failure of a pipe reported with the value the pipeline made of the
\* input: here the string as the transforming pipes left it
stringParse_pipedInput(S, in, h) ==
  IF ~isString(in) THEN createErr(S.message, in, h)
  ELSE LET r == runPipeline(in, S.pipeline).res
           transformed == runPipeline(in, SelectSeq(S.pipeline, LAMBDA q : q.p \in {"trim", "lowercase", "uppercase"})).res
       IN IF r.ok THEN OkR(r.value, h, <<>>)
          ELSE ErrR(ParseError(<<>>, r.message, transformed.value), h, <<>>)

stringParse(S, in, h) ==
  IF ~isString(in) THEN createErr(S.message, in, h)
  ELSE LET r == runPipeline(in, S.pipeline).res
       IN IF r.ok THEN OkR(r.value, h, <<>>)
          ELSE ErrR(ParseError(<<>>, r.message, in), h, <<>>)

\* number.parse without the Number.isFinite test
numberParse_anyNumber(S, in, h) ==
  IF ~isNumber(in) THEN createErr(S.message, in, h)
  ELSE LET r == runPipeline(in, S.pipeline).res
       IN IF r.ok THEN OkR(r.value, h, <<>>)
          ELSE ErrR(ParseError(<<>>, r.message, in), h, <<>>)

numberParse(S, in, h) ==
  IF ~isNumber(in) \/ ~NumberIsFinite(in) THEN createErr(S.message, in, h)
  ELSE LET r == runPipeline(in, S.pipeline).res
       IN IF r.ok THEN OkR(r.value, h, <<>>)
          ELSE ErrR(ParseError(<<>>, r.message, in), h, <<>>)

booleanParse(S, in, h) ==
  IF isBoolean(in) THEN OkR(in, h, <<>>) ELSE createErr(S.message, in, h)

\* a date schema that hands the caller's Date back
dateParse_sameObject(S, in, h) ==
  IF isDate(in) /\ NumberIsFinite(in.time)
  THEN OkR(in, h, <<>>)
  ELSE createErr(S.message, in, h)

dateParse(S, in, h) ==
  IF isDate(in) /\ NumberIsFinite(in.time)
  THEN OkR(DateV(h, in.time), h + 1, <<>>)
  ELSE createErr(S.message, in, h)

literalParse(S, in, h) ==
  IF ObjectIs(S.constant, in) THEN OkR(in, h, <<>>) ELSE createErr(S.message, in, h)

\* a loop that goes on after a failure and reports the first failure at the end
listLoop_keepGoing(S, in, i, arr, h, at, sp, log) ==
  IF i >= Len(in.a)
  THEN LET l == ListFrom(arr, h) IN OkR(l.value, l.next, log)
  ELSE LET result == parse(S.item, GetIndex(in, i), h, at \o <<ToString(i)>>, sp \o <<"item">>)
       IN CASE result.kind = "throw" -> ThrowR(result.next, log \o result.log)
            [] result.kind = "err" ->
                 LET rest == listLoop(S, in, i + 1, arr, result.next, at, sp, log \o result.log)
                 IN ErrR(unshiftPath(result.err, ToString(i)), rest.next, rest.log)
            [] OTHER ->
                 listLoop(S, in, i + 1, Append(arr, result.value), result.next, at, sp, log \o result.log)

\* a loop that reports the whole array as the input of an element's failure
listLoop_wholeInput(S, in, i, arr, h, at, sp, log) ==
  IF i >= Len(in.a)
  THEN LET l == ListFrom(arr, h) IN OkR(l.value, l.next, log)
  ELSE LET result == parse(S.item, GetIndex(in, i), h, at \o <<ToString(i)>>, sp \o <<"item">>)
       IN CASE result.kind = "throw" -> ThrowR(result.next, log \o result.log)
            [] result.kind = "err" ->
                 ErrR([unshiftPath(result.err, ToString(i)) EXCEPT !.input = in],
                      result.next, log \o result.log)
            [] OTHER ->
                 listLoop(S, in, i + 1, Append(arr, result.value), result.next, at, sp, log \o result.log)

\* the loop of list.parse from index i on; arr holds the values so far
listLoop(S, in, i, arr, h, at, sp, log) ==
  IF i >= Len(in.a)
  THEN LET l == ListFrom(arr, h) IN OkR(l.value, l.next, log)
  ELSE LET result == parse(S.item, GetIndex(in, i), h, at \o <<ToString(i)>>, sp \o <<"item">>)
       IN CASE result.kind = "throw" -> ThrowR(result.next, log \o result.log)
            [] result.kind = "err" ->
                 ErrR(unshiftPath(result.err, ToString(i)), result.next, log \o result.log)
            [] OTHER ->
                 listLoop(S, in, i + 1, Append(arr, result.value), result.next, at, sp, log \o result.log)

\* a loop that starts at the second element
listParse_fromSecond(S, in, h, at, sp) ==
  IF ~isArray(in) THEN createErr(S.message, in, h)
  ELSE listLoop(S, in, 1, <<>>, h + 1, at, sp, <<>>)

listParse(S, in, h, at, sp) ==
  IF ~isArray(in) THEN createErr(S.message, in, h)
  ELSE listLoop(S, in, 0, <<>>, h + 1, at, sp, <<>>)

\* a loop that validates the fields and then hands back the input object
objectLoop_returnsInput(S, in, keys, obj, h, at, sp, log, id) ==
  IF keys = <<>> THEN OkR(in, h, log)
  ELSE LET key == Head(keys)
           result == parse(S.shape.f[key], GetProperty(in, key), h, at \o <<key>>, sp \o <<key>>)
       IN CASE result.kind = "throw" -> ThrowR(result.next, log \o result.log)
            [] result.kind = "err" ->
                 ErrR(unshiftPath(result.err, key), result.next, log \o result.log)
            [] OTHER ->
                 objectLoop(S, in, Tail(keys), obj, result.next, at, sp, log \o result.log, id)

\* the loop of object.parse over the keys still to visit; obj is the output
\* object so far
objectLoop(S, in, keys, obj, h, at, sp, log, id) ==
  IF keys = <<>> THEN OkR(obj, h, log)
  ELSE LET key == Head(keys)
           result == parse(S.shape.f[key], GetProperty(in, key), h, at \o <<key>>, sp \o <<key>>)
       IN CASE result.kind = "throw" -> ThrowR(result.next, log \o result.log)
            [] result.kind = "err" ->
                 ErrR(unshiftPath(result.err, key), result.next, log \o result.log)
            [] OTHER ->
                 objectLoop(S, in, Tail(keys),
                            Obj(id, "null", Append(obj.keys, key),
                                [k \in (DOMAIN obj.f) \cup {key} |->
                                   IF k = key THEN result.value ELSE obj.f[k]]),
                            result.next, at, sp, log \o result.log, id)

\* object.parse visiting the fields in the order of the input's keys
objectParse_inputOrder(S, in, h, at, sp) ==
  IF ~isObject(in) THEN createErr(S.message, in, h)
  ELSE objectLoop(S, in,
                  SelectSeq(in.keys, LAMBDA k : k \in Range(S.shape.keys))
                    \o SelectSeq(ForInKeys(S.shape), LAMBDA k : k \notin Range(in.keys)),
                  Obj(h, "null", <<>>, <<>>), h + 1, at, sp, <<>>, h)

objectParse(S, in, h, at, sp) ==
  IF ~isObject(in) THEN createErr(S.message, in, h)
  ELSE objectLoop(S, in, ForInKeys(S.shape), Obj(h, "null", <<>>, <<>>), h + 1, at, sp, <<>>, h)

\* an optional that takes undefined only for an absent input
optionalParse_undefinedOnly(S, in, h, at, sp) ==
  IF isUndefined(in) THEN OkR(None, h, <<>>)
  ELSE LET result == parse(S.inner, in, h, at, sp \o <<"inner">>)
       IN IF result.kind = "ok"
          THEN OkR(Some(result.value, result.next), result.next + 1, result.log)
          ELSE result

optionalParse(S, in, h, at, sp) ==
  IF ~isDefined(in) THEN OkR(None, h, <<>>)
  ELSE LET result == parse(S.inner, in, h, at, sp \o <<"inner">>)
       IN IF result.kind = "ok"
          THEN OkR(Some(result.value, result.next), result.next + 1, result.log)
          ELSE result

\* a defaulted that validates its default with the wrapped schema
defaultedParse_validatesDefault(S, in, h, at, sp) ==
  parse(S.inner, IF isDefined(in) THEN in ELSE S.defaultValue, h, at, sp \o <<"inner">>)

defaultedParse(S, in, h, at, sp) ==
  IF isDefined(in) THEN parse(S.inner, in, h, at, sp \o <<"inner">>)
  ELSE OkR(S.defaultValue, h, <<>>)

\* a loop that validates every position with the first schema
tupleLoop_firstSchema(S, in, i, arr, h, at, sp, log) ==
  IF i >= Len(S.schemas) THEN OkR(arr, h, log)
  ELSE LET result == parse(S.schemas[1], GetIndex(in, i), h,
                           at \o <<ToString(i)>>, sp \o <<ToString(i)>>)
       IN CASE result.kind = "throw" -> ThrowR(result.next, log \o result.log)
            [] result.kind = "err" ->
                 ErrR(unshiftPath(result.err, ToString(i)), result.next, log \o result.log)
            [] OTHER ->
                 tupleLoop(S, in, i + 1, [arr EXCEPT !.a = Append(@, result.value)],
                           result.next, at, sp, log \o result.log)

\* the loop of tuple.parse from index i on
tupleLoop(S, in, i, arr, h, at, sp, log) ==
  IF i >= Len(S.schemas) THEN OkR(arr, h, log)
  ELSE LET result == parse(S.schemas[i + 1], GetIndex(in, i), h,
                           at \o <<ToString(i)>>, sp \o <<ToString(i)>>)
       IN CASE result.kind = "throw" -> ThrowR(result.next, log \o result.log)
            [] result.kind = "err" ->
                 ErrR(unshiftPath(result.err, ToString(i)), result.next, log \o result.log)
            [] OTHER ->
                 tupleLoop(S, in, i + 1, [arr EXCEPT !.a = Append(@, result.value)],
                           result.next, at, sp, log \o result.log)

\* a tuple that rejects an array of another length than its schemas
tupleParse_checksLength(S, in, h, at, sp) ==
  IF ~isArray(in) \/ Len(in.a) # Len(S.schemas) THEN createErr(S.message, in, h)
  ELSE tupleLoop(S, in, 0, Arr(h, <<>>), h + 1, at, sp, <<>>)

tupleParse(S, in, h, at, sp) ==
  IF ~isArray(in) THEN createErr(S.message, in, h)
  ELSE tupleLoop(S, in, 0, Arr(h, <<>>), h + 1, at, sp, <<>>)

\* a loop that tries every member and keeps the last success
unionLoop_lastWins(S, in, i, h, at, sp, log) ==
  IF i >= Len(S.schemas) THEN [createErr(S.message, in, h) EXCEPT !.log = log]
  ELSE LET result == parse(S.schemas[i + 1], in, h, at, sp \o <<ToString(i)>>)
       IN CASE result.kind = "throw" -> ThrowR(result.next, log \o result.log)
            [] result.kind = "ok" ->
                 LET later == unionLoop(S, in, i + 1, result.next, at, sp, log \o result.log)
                 IN IF later.kind = "ok" THEN later
                    ELSE [result EXCEPT !.next = later.next, !.log = later.log]
            [] OTHER -> unionLoop(S, in, i + 1, result.next, at, sp, log \o result.log)

\* the loop of union.parse from member i on
unionLoop(S, in, i, h, at, sp, log) ==
  IF i >= Len(S.schemas) THEN [createErr(S.message, in, h) EXCEPT !.log = log]
  ELSE LET result == parse(S.schemas[i + 1], in, h, at, sp \o <<ToString(i)>>)
       IN CASE result.kind = "throw" -> ThrowR(result.next, log \o result.log)
            [] result.kind = "ok" -> [result EXCEPT !.log = log \o @]
            [] OTHER -> unionLoop(S, in, i + 1, result.next, at, sp, log \o result.log)

\* a union that reports the failure of its first member as its own
unionParse_memberError(S, in, h, at, sp) ==
  LET r == unionLoop(S, in, 0, h, at, sp, <<>>)
      first == parse(S.schemas[1], in, h, at, sp \o <<"0">>)
  IN IF r.kind = "err" /\ first.kind = "err" THEN [r EXCEPT !.err = first.err] ELSE r

unionParse(S, in, h, at, sp) == unionLoop(S, in, 0, h, at, sp, <<>>)

\* a coerce that hands the input to the wrapped schema as it is
coerceParse_uncoerced(S, in, h, at, sp) == parse(S.inner, in, h, at, sp \o <<"inner">>)

\* a coerce that leaves null and undefined as they are
coerceParse_absentFirst(S, in, h, at, sp) ==
  IF ~isDefined(in) THEN parse(S.inner, in, h, at, sp \o <<"inner">>)
  ELSE LET c == COERCE(S.coerceFn, in, h, lenientDates)
       IN IF c.thrown THEN ThrowR(c.next, <<>>)
          ELSE parse(S.inner, c.value, c.next, at, sp \o <<"inner">>)

coerceParse(S, in, h, at, sp) ==
  LET c == COERCE(S.coerceFn, in, h, lenientDates)
  IN IF c.thrown THEN ThrowR(c.next, <<>>)
     ELSE parse(S.inner, c.value, c.next, at, sp \o <<"inner">>)

parse(S, in, h, at, sp) ==
  LET r == CASE S.kind = "string" -> stringParse(S, in, h)
             [] S.kind = "number" -> numberParse(S, in, h)
             [] S.kind = "boolean" -> booleanParse(S, in, h)
             [] S.kind = "date" -> dateParse(S, in, h)
             [] S.kind = "literal" -> literalParse(S, in, h)
             [] S.kind = "list" -> listParse(S, in, h, at, sp)
             [] S.kind = "object" -> objectParse(S, in, h, at, sp)
             [] S.kind = "optional" -> optionalParse(S, in, h, at, sp)
             [] S.kind = "defaulted" -> defaultedParse(S, in, h, at, sp)
             [] S.kind = "tuple" -> tupleParse(S, in, h, at, sp)
             [] S.kind = "union" -> unionParse(S, in, h, at, sp)
             [] S.kind = "coerce" -> coerceParse(S, in, h, at, sp)
  IN [r EXCEPT !.log = <<LogEntry(at, sp, S.name, in, r.kind)>> \o @]

(***************************************************************************)
(* The schemas and inputs of the model.                                    *)
(***************************************************************************)
\* some schema of one of the kinds occurs in S
RECURSIVE Contains(_, _)
Contains(S, kinds) ==
  \/ S.kind \in kinds
  \/ S.kind \in {"optional", "defaulted", "coerce"} /\ Contains(S.inner, kinds)
  \/ S.kind = "list" /\ Contains(S.item, kinds)
  \/ S.kind \in {"tuple", "union"} /\ \E i \in 1..Len(S.schemas) : Contains(S.schemas[i], kinds)
  \/ S.kind = "object" /\ \E k \in Range(S.shape.keys) : Contains(S.shape.f[k], kinds)

S_string == string(<<>>, StringMessage)
S_number == number(<<>>, NumberMessage)
S_boolean == boolean(BooleanMessage)
S_date == date(DateMessage)

\* object({k1: s1, k2: s2, ...}) from the keys in declaration order
ShapeOf(id, keys, schemas) ==
  Shape(id, keys, [k \in Range(keys) |-> schemas[CHOOSE i \in 1..Len(keys) : keys[i] = k]])

S_id == object(ShapeOf(1, <<"id">>, <<S_number>>), ObjectMessage)
S_ab == object(ShapeOf(2, <<"a", "b">>, <<S_string, S_number>>), ObjectMessage)
S_ba == object(ShapeOf(3, <<"b", "a">>, <<S_number, S_string>>), ObjectMessage)
S_b1 == object(ShapeOf(4, <<"b", "1">>, <<S_string, S_number>>), ObjectMessage)
S_mod == object(ShapeOf(5, <<"a", "b">>, <<optional(S_string), defaulted(S_number, Num(5))>>),
                ObjectMessage)
S_inh == object(ShapeOf(6, <<"a", "toString">>, <<S_string, optional(S_string)>>), ObjectMessage)
S_nested == object(ShapeOf(7, <<"a", "b">>, <<S_id, S_string>>), ObjectMessage)
S_empty == object(ShapeOf(8, <<>>, <<>>), ObjectMessage)
S_as == object(ShapeOf(9, <<"a">>, <<S_string>>), ObjectMessage)
S_an == object(ShapeOf(10, <<"a">>, <<S_number>>), ObjectMessage)

\* a schema written by hand, { ...string(), name: "toString" }: the Schema
\* interface asks for a name and a parse function
S_named == [S_string EXCEPT !.name = "toString"]

HandWrittenSchemas == {S_named}

PrimitiveSchemas ==
  { S_string, S_number, S_boolean, S_date,
    literal(Num(1), "Expecting literal 1"), literal(Str(<<"x">>), "Expecting literal x"),
    string(<<trim, minLength(1, MinLengthMessage(1))>>, "not a string"),
    string(<<minLength(2, MinLengthMessage(2)), trim>>, StringMessage),
    number(<<min(1, MinMessage(1)), clamp(0, 1)>>, NumberMessage) }

StructuralSchemas ==
  { list(S_number, ListMessage), list(S_string, ListMessage), list(S_id, ListMessage),
    list(list(S_number, ListMessage), "Expected rows"),
    S_id, S_ab, S_ba, S_b1, S_mod, S_inh, S_nested, S_empty,
    tuple(<<S_string, S_number>>, TupleMessage(<<S_string, S_number>>)),
    tuple(<<S_number, list(S_number, ListMessage), S_ab>>, "Expecting triple"),
    tuple(<<S_number>>, TupleMessage(<<S_number>>)),
    tuple(<<S_number, optional(S_number)>>, "Expecting one or two numbers") }

UnionSchemas ==
  { union(<<S_string, S_number>>, UnionMessage(<<S_string, S_number>>)),
    union(<<string(<<uppercase>>, StringMessage), S_string, S_number>>, "Expecting text"),
    union(<<list(S_number, ListMessage), S_ab, optional(S_boolean)>>, "Expecting one of three") }

ModifierSchemas ==
  { optional(S_number), defaulted(S_number, Num(5)), optional(S_ab),
    defaulted(number(<<min(1, MinMessage(1))>>, NumberMessage), Num(0)),
    list(optional(S_number), ListMessage) }

CoerceSchemas ==
  { coerce(S_number), coerce(S_string), coerce(S_boolean), coerce(S_date),
    coerce(list(S_number, ListMessage)), list(coerce(S_number), ListMessage),
    coerce(optional(S_number)), coerce(optional(S_date)) }

Schemas == PrimitiveSchemas \cup StructuralSchemas \cup UnionSchemas
           \cup ModifierSchemas \cup CoerceSchemas \cup HandWrittenSchemas

\* Inputs.  The caller's objects have ids below the first id parse hands out.
SeqsUpTo(S, n) == UNION {[1..m -> S] : m \in 0..n}

NumberInputs == {Num(n) : n \in 0..MaxNum} \cup {Num(5), NaN, PosInfinity, NegInfinity}

StringInputs ==
  {Str(<<>>), Str(<<"x">>), Str(<<" ", "x">>), Str(<<"4", "2">>), Str(<<" ", "O", "n", " ">>), Str(<<"a", "b", "c">>)}

PrimitiveInputs ==
  {Undefined, Null, Bool(TRUE), Bool(FALSE), Sym("s"), Fn("f")} \cup NumberInputs \cup StringInputs

FieldValues == {Str(<<"x">>), Num(1)}

KeySeqs == {<<>>, <<"a">>, <<"a", "b">>, <<"b", "a">>}

Field(keys, values) == [k \in Range(keys) |-> values[CHOOSE i \in 1..Len(keys) : keys[i] = k]]

Row(id, v) == Obj(id, "Object.prototype", <<"id">>, Field(<<"id">>, <<v>>))

ObjectInputs ==
  UNION { { Obj(31, proto, keys, f) : f \in [Range(keys) -> FieldValues] } :
          proto \in {"null", "Object.prototype"}, keys \in KeySeqs }
  \cup { Obj(32, "Class.prototype", <<"a", "b">>, Field(<<"a", "b">>, <<Str(<<"x">>), Num(1)>>)),
         Obj(33, "Object.prototype", <<"a", "b">>, Field(<<"a", "b">>, <<Str(<<"x">>), Undefined>>)),
         Obj(33, "Object.prototype", <<"a", "b">>, Field(<<"a", "b">>, <<Null, Null>>)),
         Obj(33, "Object.prototype", <<"a", "b", "c">>, Field(<<"a", "b", "c">>, <<Str(<<"x">>), Num(1), Bool(TRUE)>>)),
         Obj(33, "null", <<"c", "b", "a">>, Field(<<"c", "b", "a">>, <<Num(1), Num(0), Str(<<>>)>>)),
         Obj(33, "Object.prototype", <<"b", "1">>, Field(<<"b", "1">>, <<Str(<<"x">>), Num(1)>>)),
         Obj(33, "Object.prototype", <<"b", "1">>, Field(<<"b", "1">>, <<Num(1), Str(<<"x">>)>>)),
         Obj(33, "null", <<"a", "toString">>, Field(<<"a", "toString">>, <<Str(<<"x">>), Str(<<"x">>)>>)),
         Obj(34, "Object.prototype", <<"a", "b">>, Field(<<"a", "b">>, <<Row(35, Str(<<"x">>)), Num(1)>>)),
         Obj(34, "Object.prototype", <<"a", "b">>, Field(<<"a", "b">>, <<Row(35, Num(1)), Str(<<"x">>)>>)),
         Obj(34, "Object.prototype", <<"a", "b">>, Field(<<"a", "b">>, <<Obj(35, "null", <<>>, <<>>), Str(<<"x">>)>>)),
         Row(37, Num(1)), Row(38, Str(<<"x">>)) }

DateInputs == {DateV(36, Num(1)), DateV(36, NaN)}

ElementValues == {Num(1), Undefined, Row(38, Str(<<"x">>))}

ArrayInputs ==
  { Arr(39, a) : a \in SeqsUpTo(ElementValues, MaxLen) }
  \cup { Arr(39, <<Row(37, Num(1)), Row(38, Str(<<"x">>))>>),
         Arr(39, <<Row(37, Num(1)), Row(38, Num(0))>>),
         Arr(39, <<Str(<<"x">>), Num(1)>>),
         Arr(39, <<Str(<<"x">>), Str(<<"4", "2">>)>>),
         Arr(40, <<Num(1), Arr(41, <<Num(1), Str(<<"x">>)>>)>>),
         Arr(40, <<Arr(41, <<Num(1)>>), Arr(42, <<Num(0), Null>>)>>),
         Arr(40, <<Num(1), Arr(41, <<Num(1)>>), Obj(43, "null", <<"a", "b">>, Field(<<"a", "b">>, <<Str(<<"x">>), Num(1)>>))>>),
         Arr(40, <<Num(1), Arr(41, <<Num(1)>>), Obj(43, "null", <<"a", "b">>, Field(<<"a", "b">>, <<Num(1), Num(1)>>))>>) }

Inputs == PrimitiveInputs \cup ObjectInputs \cup DateInputs \cup ArrayInputs

(***************************************************************************)
(* The state machine: a caller holding one schema builds schemas from it   *)
(* (pick, omit, intersection, coerce), goes on with one of them or not,    *)
(* calls parse on the schema it holds, and may set the time of a Date it   *)
(* handed to parse or got from it.                                         *)
(***************************************************************************)
NoSchema == [kind |-> "none", name |-> ""]

\* the first id free for the objects parse creates: the caller's own
\* objects have smaller ids
FirstId == 100

Request(op, subject, keys, schemas) ==
  [op |-> op, subject |-> subject, keys |-> keys, schemas |-> schemas]
NoRequest == Request("none", NoSchema, <<>>, <<>>)

NoOutcome == [kind |-> "none", value |-> Undefined, err |-> NoError, next |-> 0, log |-> <<>>]

\* no pipeline has run on its own, no Option was made, nothing was unwrapped
NoRun == [done |-> FALSE, value |-> Undefined, res |-> PipeOk(Undefined), ran |-> 0]
NoOption == [made |-> FALSE, how |-> "", given |-> Undefined, opt |-> None]
NoUnwrap == [kind |-> "none", value |-> Undefined, message |-> ""]

Init ==
  /\ schema \in Schemas
  /\ input = Undefined
  /\ outcome = NoOutcome
  /\ nextId = FirstId
  /\ baseId = FirstId
  /\ calls = 0
  /\ lenientDates \in (IF Contains(schema, {"date"}) THEN BOOLEAN ELSE {FALSE})
  /\ derived = NoSchema
  /\ request = NoRequest
  /\ touched = FALSE
  /\ piped = NoRun
  /\ option = NoOption
  /\ unwrapped = NoUnwrap

\* schema.parse(x).  The caller drops the outcome of the call before, so the
\* objects that call created are garbage and their ids are free again.
Parse(x) ==
  /\ calls < MaxCalls
  /\ derived = NoSchema
  /\ input' = x
  /\ outcome' = parse(schema, x, FirstId, <<>>, <<>>)
  /\ nextId' = outcome'.next
  /\ baseId' = FirstId
  /\ calls' = calls + 1
  /\ touched' = FALSE
  /\ UNCHANGED <<schema, lenientDates, piped, option, unwrapped, derived, request>>

\* schema.parse(v) on the value v the last call returned.  v and what it
\* holds stay alive, so the objects of this call get ids after theirs.
Reparse ==
  /\ calls < MaxCalls
  /\ derived = NoSchema
  /\ outcome.kind = "ok"
  /\ input' = outcome.value
  /\ outcome' = parse(schema, outcome.value, nextId, <<>>, <<>>)
  /\ nextId' = outcome'.next
  /\ baseId' = nextId
  /\ calls' = calls + 1
  /\ touched' = FALSE
  /\ UNCHANGED <<schema, lenientDates, piped, option, unwrapped, derived, request>>

\* The caller builds a schema from the one it holds, before it parses with
\* either.  The shape objects declared above have ids below 50; the shape a
\* constructor creates gets an id no live shape has.
NewShapeId(S) == CHOOSE id \in 50..51 : S.kind = "object" => id # S.shape.id

\* A shape is one object whoever holds it: a schema whose shape is the object
\* the constructor wrote to has the shape the constructor left.
Aliased(S, result) ==
  IF S.kind = "object" /\ result.kind = "object" /\ S.shape.id = result.shape.id
  THEN [S EXCEPT !.shape = result.shape]
  ELSE S

Construct(op, result, keys, schemas) ==
  /\ calls = 0
  /\ derived' = result
  /\ schema' = Aliased(schema, result)
  /\ request' = Request(op, schema, keys, schemas)
  /\ UNCHANGED <<input, outcome, nextId, baseId, calls, lenientDates, piped, option, unwrapped, touched>>

\* derived = pick(schema, keys)
PickCall(keys) ==
  /\ schema.kind = "object"
  /\ Construct("pick", pick(schema, keys, ObjectMessage, NewShapeId(schema)), keys, <<schema>>)

\* derived = omit(schema, keys)
OmitCall(keys) ==
  /\ schema.kind = "object"
  /\ Construct("omit", omit(schema, keys, ObjectMessage, NewShapeId(schema)), keys, <<schema>>)

\* derived = intersection(schemas), the schema held being one of schemas
IntersectionCall(schemas) ==
  /\ schema.kind = "object"
  /\ Construct("intersection",
               intersection(schemas, IntersectionMessage, NewShapeId(schema)), <<>>, schemas)

\* derived = coerce(schema), or the exception coerce throws
CoerceCall == Construct("coerce", coerce(schema), <<>>, <<schema>>)

\* the caller goes on with the schema it built
Use ==
  /\ schema \in Schemas
  /\ derived.kind \notin {"none", "thrown"}
  /\ schema' = derived
  /\ derived' = NoSchema
  /\ request' = NoRequest
  /\ UNCHANGED <<input, outcome, nextId, baseId, calls, lenientDates, piped, option, unwrapped, touched>>

\* the caller lets go of the schema it built
Drop ==
  /\ derived # NoSchema
  /\ derived' = NoSchema
  /\ request' = NoRequest
  /\ UNCHANGED <<schema, input, outcome, nextId, baseId, calls, lenientDates, piped, option, unwrapped, touched>>

\* The caller sets the time of a Date it holds.  A Date is one object
\* whoever holds it: the Date of that id changes wherever the caller can
\* reach it (the Dates of the model are never elements or fields).  The log
\* keeps what was handed over when the call was made.
WithTime(v, id, time) ==
  IF v.t = "date" /\ v.id = id THEN [v EXCEPT !.time = time]
  ELSE IF v.t = "Option" /\ v.value.t = "date" /\ v.value.id = id
  THEN [v EXCEPT !.value.time = time]
  ELSE v

SetTime(id, time) ==
  /\ Contains(schema, {"date"})
  /\ input' = WithTime(input, id, time)
  /\ outcome' = [outcome EXCEPT !.value = WithTime(@, id, time),
                                !.err.input = WithTime(@, id, time)]
  /\ touched' = TRUE
  /\ UNCHANGED <<schema, nextId, baseId, calls, lenientDates, piped, option, unwrapped, derived, request>>

\* x.setTime(time) on the input of the last call
MutateInput(time) ==
  /\ input.t = "date"
  /\ SetTime(input.id, time)

\* v.setTime(time) on the value the last call returned
MutateResult(time) ==
  /\ outcome.kind = "ok"
  /\ outcome.value.t = "date"
  /\ SetTime(outcome.value.id, time)

TimeValues == {Num(0), NaN}

KeyLists == {<<"zz">>, <<"a", "zz">>}

IntersectionArgs(S) == {<<S, S_an>>, <<S_an, S, S_b1>>}

Next ==
  \/ \E x \in Inputs : Parse(x)
  \/ Reparse
  \/ \E keys \in KeyLists : PickCall(keys)
  \/ \E keys \in KeyLists : OmitCall(keys)
  \/ \E schemas \in IntersectionArgs(schema) : IntersectionCall(schemas)
  \/ CoerceCall
  \/ Use
  \/ Drop
  \/ \E time \in TimeValues : MutateInput(time)
  \/ \E time \in TimeValues : MutateResult(time)

Spec == Init /\ [][Next]_vars

(***************************************************************************)
(* Vocabulary of the properties.                                           *)
(***************************************************************************)
\* a parse call has been made, and its input and its value are as the call
\* left them
Called == outcome.kind # "none" /\ ~touched

parseAt(S, x, h) == parse(S, x, h, <<>>, <<>>)

\* the object ids the last call may have handed out
CallIds == baseId..nextId

\* the entries of the log for the schemas directly below the top-level one
DirectCalls(log) == SelectSeq(log, LAMBDA e : Len(e.sp) = 1)

Last(seq) == seq[Len(seq)]

Rows == Arr(39, <<Row(37, Num(1)), Row(38, Str(<<"x">>))>>)

(***************************************************************************)
(* C1: parse returns Ok or Err for every schema and every input and never  *)
(* throws.  The coercions Number(input) and String(input) throw a          *)
(* TypeError on a symbol or on an object without prototype, and the        *)
(* exception leaves parse.                                                 *)
(***************************************************************************)
C1_ParseNeverThrows == outcome.kind # "throw"

(***************************************************************************)
(* C2: below object, list and tuple (no union in the schema) the path of a *)
(* failure is the position of the failing validator's input, outermost     *)
(* segment first, one segment per enclosing combinator; the position is    *)
(* the one parse was invoked at last.  list(object({id: number()})) on     *)
(* [{id: 1}, {id: "x"}] fails with path ["1", "id"].                       *)
(***************************************************************************)
C2_PathRootToLeaf ==
  /\ (outcome.kind = "err" /\ ~Contains(schema, {"union"})) =>
       /\ outcome.err.path = Last(outcome.log).at
       /\ Len(outcome.err.path) = Len(SelectSeq(Last(outcome.log).sp, LAMBDA seg : seg # "inner"))
  /\ (Called /\ schema = list(S_id, ListMessage) /\ input = Rows) =>
       /\ outcome.kind = "err"
       /\ outcome.err.path = <<"1", "id">>

C2_Witness ==
  /\ schema = list(S_id, ListMessage)
  /\ input = Rows
  /\ outcome.kind = "err"
  /\ Len(outcome.err.path) = 2

(***************************************************************************)
(* C9: without a pipeline string(), number() and boolean() return Ok(x)    *)
(* unchanged exactly when x is a string, a finite number, a boolean, and   *)
(* otherwise Err with path [], the schema's message and input x; number()  *)
(* rejects NaN and both infinities.                                        *)
(***************************************************************************)
C9_Accepts(S, x) ==
  CASE S.kind = "string" -> x.t = "string"
    [] S.kind = "number" -> x.t = "number" /\ x \notin {NaN, PosInfinity, NegInfinity}
    [] S.kind = "boolean" -> x.t = "boolean"

C9_PrimitiveIdentity ==
  (Called /\ schema \in {S_string, S_number, S_boolean}) =>
     IF C9_Accepts(schema, input)
     THEN outcome.kind = "ok" /\ outcome.value = input
     ELSE outcome.kind = "err" /\ outcome.err = ParseError(<<>>, schema.message, input)

C9_Witness ==
  /\ schema = S_number
  /\ input = NaN
  /\ outcome.kind = "err"

(***************************************************************************)
(* The children of a structural schema on an input, in the order the       *)
(* language enumerates them: the elements of the array for list, the       *)
(* positions 0 .. schemas.length - 1 for tuple, and for object the shape's *)
(* keys, array-index keys first by ascending number, then the others in    *)
(* the order the shape declared them.                                      *)
(***************************************************************************)
Pos(seq, x) == CHOOSE i \in 1..Len(seq) : seq[i] = x

KeyBefore(keys, k1, k2) ==
  IF IsIndexKey(k1) /\ IsIndexKey(k2) THEN IndexOfKey(k1) < IndexOfKey(k2)
  ELSE IF IsIndexKey(k1) THEN TRUE
  ELSE IF IsIndexKey(k2) THEN FALSE
  ELSE Pos(keys, k1) < Pos(keys, k2)

EnumeratedKeys(keys) ==
  [r \in 1..Len(keys) |->
     CHOOSE k \in Range(keys) : Cardinality({j \in Range(keys) : KeyBefore(keys, j, k)}) = r - 1]

Child(seg, S, x) == [seg |-> seg, schema |-> S, input |-> x]

ChildrenIn(S, x, keys) ==
  CASE S.kind = "list" -> [i \in 1..Len(x.a) |-> Child(ToString(i - 1), S.item, x.a[i])]
    [] S.kind = "tuple" ->
         [i \in 1..Len(S.schemas) |->
            Child(ToString(i - 1), S.schemas[i], IF i <= Len(x.a) THEN x.a[i] ELSE Undefined)]
    [] S.kind = "object" ->
         [i \in 1..Len(keys) |-> Child(keys[i], S.shape.f[keys[i]], GetProperty(x, keys[i]))]

Children(S, x) ==
  ChildrenIn(S, x, IF S.kind = "object" THEN EnumeratedKeys(S.shape.keys) ELSE <<>>)

IsPlain(x) == x.t = "object" /\ x.proto \in {"null", "Object.prototype"}

\* the input passes the combinator's own test, so that its children are visited
Enters(S, x) ==
  CASE S.kind \in {"list", "tuple"} -> x.t = "array"
    [] S.kind = "object" -> IsPlain(x)
    [] OTHER -> FALSE

Failing(ch) == {i \in 1..Len(ch) : parseAt(ch[i].schema, ch[i].input, baseId).kind # "ok"}

Least(set) == CHOOSE i \in set : \A j \in set : i <= j

Prefixed(seg, e) == ParseError(<<seg>> \o e.path, e.message, e.input)

(***************************************************************************)
(* C3: list, object and tuple stop at the first failing child of their     *)
(* enumeration: the error is that of the first failing child with its key  *)
(* or index put in front of the path, and parse was invoked on the         *)
(* children up to that one and on no later child.                          *)
(***************************************************************************)
C3_FailFast ==
  (outcome.kind = "err" /\ Enters(schema, input)) =>
     LET ch == Children(schema, input)
         first == Least(Failing(ch))
         direct == DirectCalls(outcome.log)
     IN /\ Failing(ch) # {}
        /\ \E h \in CallIds :
             outcome.err = Prefixed(ch[first].seg, parseAt(ch[first].schema, ch[first].input, h).err)
        /\ [i \in 1..Len(direct) |-> direct[i].at] = [i \in 1..first |-> <<ch[i].seg>>]

C3_Witness ==
  /\ outcome.kind = "err"
  /\ Enters(schema, input)
  /\ schema.kind \in {"list", "tuple"}
  /\ Cardinality(Failing(Children(schema, input))) >= 2
  /\ Least(Failing(Children(schema, input))) < Len(Children(schema, input))

(***************************************************************************)
(* C4, as claimed: the error of object.parse is that of the first invalid  *)
(* field in the order the shape declared its fields.                       *)
(***************************************************************************)
C4_DeclaredOrder ==
  (outcome.kind = "err" /\ schema.kind = "object" /\ IsPlain(input)) =>
     LET ch == ChildrenIn(schema, input, schema.shape.keys)
     IN Head(outcome.err.path) = ch[Least(Failing(ch))].seg

(***************************************************************************)
(* C4, amended: the error of object.parse is that of the first invalid     *)
(* field in the shape's enumeration order (array-index keys first by       *)
(* ascending number, then the other keys as declared), and it is the same  *)
(* whatever the order of the keys of the input.                            *)
(***************************************************************************)
ReverseSeq(seq) == [i \in 1..Len(seq) |-> seq[Len(seq) + 1 - i]]

C4_EnumerationOrder ==
  (outcome.kind = "err" /\ schema.kind = "object" /\ IsPlain(input)) =>
     LET ch == Children(schema, input)
     IN /\ Head(outcome.err.path) = ch[Least(Failing(ch))].seg
        /\ parseAt(schema, [input EXCEPT !.keys = ReverseSeq(@)], baseId).err = outcome.err

C4_Witness ==
  /\ outcome.kind = "err"
  /\ schema.kind = "object"
  /\ IsPlain(input)
  /\ Cardinality(Failing(Children(schema, input))) >= 2
  /\ Len(input.keys) >= 2
  /\ input.keys = ReverseSeq(schema.shape.keys)

(***************************************************************************)
(* C5: a shape key absent from the input is validated as undefined, so     *)
(* that parse gives the same outcome as on the input with every missing    *)
(* key set to undefined; object({a: string(), b: number()}) on {a: "x"}    *)
(* fails with path ["b"].  The code reads input[key], which finds the      *)
(* properties every object inherits, and validates those instead.          *)
(***************************************************************************)
WithMissingKeys(S, x) ==
  LET missing == SelectSeq(S.shape.keys, LAMBDA k : k \notin Range(x.keys))
  IN [x EXCEPT !.keys = @ \o missing,
               !.f = [k \in Range(x.keys) \cup Range(missing) |->
                        IF k \in Range(x.keys) THEN x.f[k] ELSE Undefined]]

C5_MissingKeyIsUndefined ==
  /\ (Called /\ schema.kind = "object" /\ IsPlain(input)) =>
       LET filled == parseAt(schema, WithMissingKeys(schema, input), baseId)
       IN /\ outcome.kind = filled.kind
          /\ outcome.value = filled.value
          /\ outcome.err = filled.err
  /\ (Called /\ schema = S_ab
        /\ input = Obj(31, "Object.prototype", <<"a">>, Field(<<"a">>, <<Str(<<"x">>)>>))) =>
       outcome.kind = "err" /\ outcome.err.path = <<"b">>

(***************************************************************************)
(* C6: object.parse answers Err with path [] to every input that is not a  *)
(* plain object (null, undefined, an array, a class instance, a date, a    *)
(* primitive) and visits the fields exactly when the prototype of the      *)
(* input is null or Object.prototype.                                      *)
(***************************************************************************)
C6_PlainObjectsOnly ==
  (Called /\ schema.kind = "object") =>
     IF input.t \notin {"null", "undefined"}
        /\ GetPrototypeOf(input) \in {"null", "Object.prototype"}
     THEN /\ Len(DirectCalls(outcome.log)) >= 1 \/ schema.shape.keys = <<>>
          /\ outcome.kind = "err" => outcome.err.path # <<>>
     ELSE /\ outcome.kind = "err"
          /\ outcome.err = ParseError(<<>>, schema.message, input)
          /\ Len(outcome.log) = 1

C6_Witness ==
  /\ schema.kind = "object"
  /\ input.t = "object"
  /\ input.proto = "Class.prototype"
  /\ outcome.kind = "err"

(***************************************************************************)
(* C7: on success object.parse returns an object it created (never the     *)
(* input), with a null prototype, whose own keys are exactly the keys of   *)
(* the shape, each holding the value its child schema produced; the other  *)
(* keys of the input do not appear.                                        *)
(***************************************************************************)
C7_FreshNullPrototypeObject ==
  (outcome.kind = "ok" /\ schema.kind = "object") =>
     /\ outcome.value.t = "object"
     /\ outcome.value.proto = "null"
     /\ outcome.value.id # input.id
     /\ outcome.value.id \in CallIds
     /\ Range(outcome.value.keys) = Range(schema.shape.keys)
     /\ DOMAIN outcome.value.f = Range(schema.shape.keys)
     /\ \A k \in Range(schema.shape.keys) :
          \E h \in CallIds :
            LET child == parseAt(schema.shape.f[k], GetProperty(input, k), h)
            IN child.kind = "ok" /\ outcome.value.f[k] = child.value

C7_Witness ==
  /\ outcome.kind = "ok"
  /\ schema = S_ab
  /\ "c" \in Range(input.keys)
  /\ input.proto = "null"

(***************************************************************************)
(* C8: without coerce, the input of the error of a failing parse is the    *)
(* value handed to the validator that failed: the value found by following *)
(* the error's path from the top-level input by property access, undefined *)
(* where no such key or position exists, and not the top-level input.      *)
(***************************************************************************)
RECURSIVE FollowPath(_, _)
FollowPath(x, path) ==
  IF path = <<>> THEN x
  ELSE FollowPath(IF x.t = "array" THEN (IF IndexOfKey(Head(path)) < Len(x.a)
                                         THEN x.a[IndexOfKey(Head(path)) + 1] ELSE Undefined)
                  ELSE GetProperty(x, Head(path)),
                  Tail(path))

\* the first invocation at the position the error names that failed
FailedAt(log, path) ==
  log[Least({i \in 1..Len(log) : log[i].at = path /\ log[i].kind = "err"})]

Accepting(S, x) == {i \in 1..Len(S.schemas) : parseAt(S.schemas[i], x, baseId).kind = "ok"}

C10_FirstSuccessWins ==
  /\ (Called /\ schema.kind = "union" /\ Accepting(schema, input) # {}) =>
       LET first == Least(Accepting(schema, input))
           direct == DirectCalls(outcome.log)
       IN /\ outcome.kind = "ok"
          /\ \E h \in CallIds : outcome.value = parseAt(schema.schemas[first], input, h).value
          /\ [i \in 1..Len(direct) |-> direct[i].sp] = [i \in 1..first |-> <<ToString(i - 1)>>]
  /\ (Called /\ schema = union(<<S_string, S_number>>, UnionMessage(<<S_string, S_number>>))
        /\ input = Num(5)) =>
       outcome.kind = "ok" /\ outcome.value = Num(5)

C10_Witness ==
  /\ schema.kind = "union"
  /\ outcome.kind = "ok"
  /\ Cardinality(Accepting(schema, input)) >= 2
  /\ outcome.value # input

(***************************************************************************)
(* C11: when every member of a union fails, union.parse returns one error  *)
(* with the empty path, the input handed to the union and the union's own  *)
(* message, which by default names every member; nothing of a member's     *)
(* failure (its path, message or input) shows, also when the member failed *)
(* deep inside a nested structure.                                         *)
(***************************************************************************)
\* the errors of the members of union S on input x
MemberErrors(S, x) ==
  {parseAt(S.schemas[i], x, baseId).err : i \in 1..Len(S.schemas)}

C11_UnionOwnError ==
  /\ (Called /\ schema.kind = "union" /\ Accepting(schema, input) = {}
        /\ outcome.kind # "throw") =>
       /\ outcome.kind = "err"
       /\ outcome.err = ParseError(<<>>, schema.message, input)
       /\ Len(DirectCalls(outcome.log)) = Len(schema.schemas)
  /\ union(<<S_string, S_number>>, UnionMessage(<<S_string, S_number>>)).message
       = "Expecting one of string, number"

\* a member failed below the top of the input, with its own path, message and input
C11_Witness ==
  /\ schema.kind = "union"
  /\ outcome.kind = "err"
  /\ outcome.err.path = <<>>
  /\ \E e \in MemberErrors(schema, input) :
       Len(e.path) >= 1 /\ e.message # schema.message /\ e.input # input

(***************************************************************************)
(* C15: optional(S).parse(x) is Ok(None) when x is null or undefined, and  *)
(* S.parse is not invoked; for every other x it is Ok(Some(v)) when        *)
(* S.parse(x) is Ok(v), and the error of S.parse(x), unchanged, when       *)
(* S.parse(x) is Err.  optional(number()) gives Ok(None) on undefined and  *)
(* on null and Ok(Some(5)) on 5.                                           *)
(***************************************************************************)
Absent == {Null, Undefined}

C15_Optional ==
  /\ (Called /\ schema.kind = "optional" /\ input \in Absent) =>
       /\ outcome.kind = "ok"
       /\ outcome.value = None
       /\ Len(outcome.log) = 1
  /\ (Called /\ schema.kind = "optional" /\ input \notin Absent) =>
       LET inner == parseAt(schema.inner, input, baseId)
       IN /\ Len(outcome.log) >= 2 /\ outcome.log[2].input = input
          /\ inner.kind = "ok" =>
               /\ outcome.kind = "ok"
               /\ outcome.value.t = "Option"
               /\ outcome.value.id # NoneId
               /\ outcome.value.value = inner.value
          /\ inner.kind = "err" => outcome.kind = "err" /\ outcome.err = inner.err
  /\ (Called /\ schema = optional(S_number) /\ input = Num(5)) =>
       outcome.kind = "ok" /\ outcome.value.value = Num(5)

\* null is absent although the wrapped schema would reject it
C15_Witness ==
  /\ schema.kind = "optional"
  /\ input = Null
  /\ outcome.kind = "ok"
  /\ outcome.value = None
  /\ parseAt(schema.inner, input, baseId).kind = "err"

(***************************************************************************)
(* C16: defaulted(S, d).parse(x) is Ok(d) when x is null or undefined, and *)
(* S.parse is not invoked, so d is returned as it is even when S.parse(d)  *)
(* would be Err; for every other x the outcome is that of S.parse(x).      *)
(***************************************************************************)
C16_Defaulted ==
  /\ (Called /\ schema.kind = "defaulted" /\ input \in Absent) =>
       /\ outcome.kind = "ok"
       /\ outcome.value = schema.defaultValue
       /\ Len(outcome.log) = 1
  /\ (Called /\ schema.kind = "defaulted" /\ input \notin Absent) =>
       LET inner == parseAt(schema.inner, input, baseId)
       IN /\ outcome.kind = inner.kind
          /\ outcome.value = inner.value
          /\ outcome.err = inner.err
          /\ Len(outcome.log) = 1 + Len(inner.log)

\* the default is handed out although the wrapped schema rejects it
C16_Witness ==
  /\ schema.kind = "defaulted"
  /\ input \in Absent
  /\ outcome.kind = "ok"
  /\ outcome.value = schema.defaultValue
  /\ parseAt(schema.inner, schema.defaultValue, baseId).kind = "err"

(***************************************************************************)
(* C18: coerce(S).parse(x) is S.parse(c(x)) for every x, where c is the    *)
(* coercion registered under S.name, fixed when coerce(S) is built: when   *)
(* c(x) yields a value the outcome is that of S on the value, and when     *)
(* c(x) throws so does the call.  coerce(number()).parse("42") is Ok(42)   *)
(* and coerce(number()).parse("abc") is Err, the cast giving NaN.          *)
(***************************************************************************)
C18_CoerceThenParse ==
  /\ (Called /\ schema.kind = "coerce") =>
       LET c == COERCE(schema.inner.name, input, baseId, lenientDates)
           direct == parseAt(schema.inner, c.value, c.next)
       IN /\ schema.coerceFn = schema.inner.name
          /\ c.thrown => outcome.kind = "throw"
          /\ ~c.thrown =>
               /\ outcome.kind = direct.kind
               /\ outcome.value = direct.value
               /\ outcome.err = direct.err
               /\ outcome.log[2].input = c.value
  /\ (Called /\ schema = coerce(S_number) /\ input = Str(<<"4", "2">>)) =>
       outcome.kind = "ok" /\ outcome.value = Num(42)
  /\ (Called /\ schema = coerce(S_number) /\ input = Str(<<"a", "b", "c">>)) =>
       outcome.kind = "err" /\ outcome.err = ParseError(<<>>, NumberMessage, NaN)

\* the wrapped schema alone rejects the input that the coercion turns into 42
C18_Witness ==
  /\ schema = coerce(S_number)
  /\ input = Str(<<"4", "2">>)
  /\ outcome.kind = "ok"
  /\ outcome.value = Num(42)
  /\ parseAt(schema.inner, input, baseId).kind = "err"

(***************************************************************************)
(* C19: coerce(boolean()).parse(x) is Ok(true) when x is a string that,    *)
(* trimmed and lowercased, is on, yes or true; for every other x it is Ok  *)
(* of the truthiness of x, so Ok(false) comes for the falsy values only:   *)
(* "", 0, NaN, null, undefined and false.                                  *)
(***************************************************************************)
Falsy == {Undefined, Null, Bool(FALSE), Num(0), NaN, Str(<<>>)}

IsTruthyWord(x) ==
  /\ isString(x)
  /\ StringToLowerCase(StringTrim(x.s)) \in {<<"o", "n">>, <<"y", "e", "s">>, <<"t", "r", "u", "e">>}

C19_CoerceBoolean ==
  (Called /\ schema = coerce(S_boolean)) =>
    /\ outcome.kind = "ok"
    /\ IsTruthyWord(input) => outcome.value = Bool(TRUE)
    /\ ~IsTruthyWord(input) => outcome.value = Bool(input \notin Falsy)
    /\ outcome.value = Bool(FALSE) => input \in Falsy

\* a word of the list, in capitals and between blanks
C19_Witness ==
  /\ schema = coerce(S_boolean)
  /\ IsTruthyWord(input)
  /\ input.s \notin TruthyWords
  /\ outcome.kind = "ok"
  /\ outcome.value = Bool(TRUE)

(***************************************************************************)
(* C12: intersection(schemas) gives an object schema whose shape has every *)
(* key that one of the schemas declares; a key that several declare gets   *)
(* the child of the last schema declaring it.  The intersection of         *)
(* object({a: string()}) and object({a: number()}) validates a as a        *)
(* number.                                                                 *)
(***************************************************************************)
ShapeKeys(S) == Range(S.shape.keys)

\* the shape has each of its keys once and a child for each
WellFormed(shape) ==
  /\ Len(shape.keys) = Cardinality(Range(shape.keys))
  /\ DOMAIN shape.f = Range(shape.keys)

Declaring(schemas, key) == {i \in 1..Len(schemas) : key \in ShapeKeys(schemas[i])}

Greatest(set) == CHOOSE i \in set : \A j \in set : j <= i

ObjA(v) == Obj(31, "Object.prototype", <<"a">>, Field(<<"a">>, <<v>>))

C12_IntersectionLastWins ==
  /\ request.op = "intersection" =>
       /\ derived.kind = "object"
       /\ derived.name = "object"
       /\ WellFormed(derived.shape)
       /\ ShapeKeys(derived) = UNION {ShapeKeys(request.schemas[i]) : i \in 1..Len(request.schemas)}
       /\ \A key \in ShapeKeys(derived) :
            derived.shape.f[key]
              = request.schemas[Greatest(Declaring(request.schemas, key))].shape.f[key]
  /\ LET both == intersection(<<S_as, S_an>>, IntersectionMessage, NewShapeId(S_as))
     IN /\ parseAt(both, ObjA(Num(1)), baseId).kind = "ok"
        /\ parseAt(both, ObjA(Str(<<"x">>)), baseId).err
             = ParseError(<<"a">>, NumberMessage, Str(<<"x">>))

\* a key declared twice, with different children
C12_Witness ==
  /\ request.op = "intersection"
  /\ \E key \in ShapeKeys(derived) :
       LET decl == Declaring(request.schemas, key)
       IN /\ Cardinality(decl) >= 2
          /\ request.schemas[Least(decl)].shape.f[key] # derived.shape.f[key]
          /\ request.schemas[Greatest(decl)].shape.f[key] = derived.shape.f[key]

(***************************************************************************)
(* C13: the shape of pick(S, K) has exactly the keys of S.shape that are   *)
(* in K and the shape of omit(S, K) exactly those that are not; each key   *)
(* kept has the child schema it has in S.shape; the keys of K that S.shape *)
(* does not have are ignored.                                              *)
(***************************************************************************)
Kept(req) ==
  IF req.op = "pick" THEN ShapeKeys(req.subject) \cap Range(req.keys)
  ELSE ShapeKeys(req.subject) \ Range(req.keys)

C13_PickOmit ==
  request.op \in {"pick", "omit"} =>
    /\ derived.kind = "object"
    /\ WellFormed(derived.shape)
    /\ ShapeKeys(derived) = Kept(request)
    /\ \A key \in Kept(request) : derived.shape.f[key] = request.subject.shape.f[key]

\* a pick that keeps a key, leaves one out and names a key the shape lacks
C13_Witness ==
  /\ request.op = "pick"
  /\ Range(request.keys) \ ShapeKeys(request.subject) # {}
  /\ ShapeKeys(derived) # {}
  /\ ShapeKeys(derived) # ShapeKeys(request.subject)

(***************************************************************************)
(* C14: pick, omit and intersection leave the schemas they are given as    *)
(* they were: after the call S.shape has the keys and children it had and  *)
(* S.parse gives the outcome it gave on every input, and the schema built  *)
(* has a shape object of its own, which is not the shape object of S or of *)
(* another argument.                                                       *)
(***************************************************************************)
C14_ArgumentsUntouched ==
  request.op \in {"pick", "omit", "intersection"} =>
    /\ schema = request.subject
    /\ schema.shape = request.subject.shape
    /\ \A x \in Inputs : parseAt(schema, x, baseId) = parseAt(request.subject, x, baseId)
    /\ \A i \in 1..Len(request.schemas) : derived.shape.id # request.schemas[i].shape.id

\* a second construction, from a schema that was itself built, whose shape
\* has the content of the argument's shape and is another object
C14_Witness ==
  /\ request.op = "omit"
  /\ schema \notin Schemas
  /\ derived.shape.keys = schema.shape.keys
  /\ derived.shape.f = schema.shape.f
  /\ derived.shape.keys # <<>>
  /\ derived.shape.id # schema.shape.id

(***************************************************************************)
(* C17: coerce(S) throws when it is called, and not later in parse,        *)
(* exactly when S.name is none of number, string, date, boolean and list,  *)
(* so for every object, tuple, union and literal schema; for a schema with *)
(* one of the five names the call gives a schema.  The read of             *)
(* COERCE[S.name] also finds what the table inherits from                  *)
(* Object.prototype: for a schema named toString the call gives a schema   *)
(* and the property does not hold.                                         *)
(***************************************************************************)
C17_CoerceThrowsAtConstruction ==
  /\ request.op = "coerce" =>
       /\ derived.kind = "thrown"
            <=> request.subject.name \notin {"number", "string", "date", "boolean", "list"}
       /\ request.subject.kind \in {"object", "tuple", "union", "literal"}
            => derived.kind = "thrown"
       /\ derived.kind # "thrown" =>
            /\ derived.kind = "coerce"
            /\ derived.inner = request.subject
            /\ derived.coerceFn = request.subject.name
  /\ schema.kind = "coerce" =>
       schema.coerceFn \in {"number", "string", "date", "boolean", "list"}

(***************************************************************************)
(* C20: date().parse(x) is Ok exactly when x is a Date with a finite       *)
(* timestamp; the value is then a new Date, another object than x, with    *)
(* the timestamp of x, so that setting the time of x afterwards leaves the *)
(* value as it is and setting the time of the value leaves x as it is; an  *)
(* invalid Date and a value that is no Date give Err with the empty path.  *)
(***************************************************************************)
C20_DateStep ==
  schema.kind = "date" =>
    /\ calls' = calls + 1 =>
         /\ outcome'.kind = "ok" <=> (input'.t = "date" /\ input'.time.k = "fin")
         /\ outcome'.kind = "ok" =>
              /\ outcome'.value.t = "date"
              /\ outcome'.value.id # input'.id
              /\ outcome'.value.time = input'.time
         /\ outcome'.kind # "ok" =>
              /\ outcome'.kind = "err"
              /\ outcome'.err = ParseError(<<>>, schema.message, input')
    /\ (\E time \in TimeValues : MutateInput(time)) => outcome'.value = outcome.value
    /\ (\E time \in TimeValues : MutateResult(time)) => input' = input

C20_DateIsIndependentCopy == [][C20_DateStep]_vars

\* the caller has set the time of the Date it handed over, or of the Date it
\* got, after the call: the two differ
C20_Witness ==
  /\ schema.kind = "date"
  /\ outcome.kind = "ok"
  /\ input.t = "date"
  /\ outcome.value.time # input.time

(***************************************************************************)
(* Parsing a parsed value again                                            *)
(***************************************************************************)

\* what a value holds, without the identity of the objects that hold it
RECURSIVE Content(_)
Content(v) ==
  CASE v.t \in {"array", "List"} ->
         [t |-> v.t, a |-> [i \in 1..Len(v.a) |-> Content(v.a[i])]]
    [] v.t = "object" ->
         [t |-> "object", proto |-> v.proto, keys |-> v.keys,
          f |-> [k \in DOMAIN v.f |-> Content(v.f[k])]]
    [] v.t = "date" -> [t |-> "date", time |-> v.time]
    [] v.t = "Option" -> [t |-> "Option", value |-> Content(v.value)]
    [] OTHER -> v

\* the values a pipeline of the schema can receive
PipelineDomain(S) ==
  { x \in Inputs : IF S.kind = "string" THEN isString(x)
                   ELSE isNumber(x) /\ NumberIsFinite(x) }

\* the pipeline, run on a value it produced, produces that value again
IdempotentPipeline(S) ==
  \A u \in PipelineDomain(S) :
    LET r == runPipeline(u, S.pipeline).res
    IN r.ok => LET q == runPipeline(r.value, S.pipeline).res
               IN q.ok /\ q.value = r.value

\* schemas made of string, number, boolean, date, literal, object and tuple
\* alone, every pipeline in them idempotent as a whole
RECURSIVE Revalidates(_)
Revalidates(S) ==
  CASE S.kind \in {"string", "number"} -> IdempotentPipeline(S)
    [] S.kind \in {"boolean", "date", "literal"} -> TRUE
    [] S.kind = "object" -> \A k \in Range(S.shape.keys) : Revalidates(S.shape.f[k])
    [] S.kind = "tuple" -> \A i \in 1..Len(S.schemas) : Revalidates(S.schemas[i])
    [] OTHER -> FALSE

\* the second call accepts the value and returns the same content; the
\* claim is about a value as it was returned (Called), not one the caller
\* has changed since
SameAgain == outcome'.kind = "ok" /\ Content(outcome'.value) = Content(outcome.value)

\* C21 as stated: for every schema kind, list, object, tuple, optional and
\* date included, a value a parse returned is accepted by the same schema
\* and comes back unchanged.
C21_ParseIsIdempotent == [][(Called /\ Reparse) => SameAgain]_vars

\* C21 as amended: a value returned by a schema made of string, number,
\* boolean, date, literal, object and tuple alone, whose pipelines are
\* idempotent as a whole, is accepted by that schema and comes back with
\* the same content.
C21_ParseIsIdempotentOnPlainValues ==
  [][(Called /\ Reparse /\ Revalidates(schema)) => SameAgain]_vars

\* an object a parse built was parsed again and accepted, in a new object
C21_Witness ==
  /\ Called
  /\ baseId > FirstId
  /\ schema.kind = "object"
  /\ Revalidates(schema)
  /\ input.t = "object" /\ input.id >= FirstId
  /\ outcome.kind = "ok"
  /\ outcome.value.id # input.id
  /\ Content(outcome.value) = Content(input)

(***************************************************************************)
(* Calls leave nothing behind                                              *)
(***************************************************************************)

Largest(set) == IF set = {} THEN 0 ELSE CHOOSE n \in set : \A m \in set : m <= n

\* the number of containers around the most deeply nested schema: the
\* longest path an error of the schema can carry
RECURSIVE Depth(_)
Depth(S) ==
  CASE S.kind = "list" -> 1 + Depth(S.item)
    [] S.kind = "object" ->
         IF S.shape.keys = <<>> THEN 0
         ELSE 1 + Largest({ Depth(S.shape.f[k]) : k \in Range(S.shape.keys) })
    [] S.kind = "tuple" ->
         1 + Largest({ Depth(S.schemas[i]) : i \in 1..Len(S.schemas) })
    [] S.kind \in {"optional", "defaulted", "coerce"} -> Depth(S.inner)
    [] OTHER -> 0

\* a call of parse, first or later: the steps that count a call
CallStep == calls' = calls + 1

PipelineSchemas ==
  { S_number, S_string,
    number(<<clamp(0, 1)>>, NumberMessage),
    number(<<clamp(1, 0)>>, NumberMessage),
    number(<<min(1, MinMessage(1))>>, NumberMessage),
    number(<<max(1, MaxMessage(1))>>, NumberMessage),
    number(<<min(1, MinMessage(1)), min(2, MinMessage(2))>>, NumberMessage),
    number(<<clamp(0, 1), min(1, MinMessage(1))>>, NumberMessage),
    number(<<min(1, MinMessage(1)), clamp(0, 1)>>, NumberMessage),
    string(<<trim, minLength(1, MinLengthMessage(1))>>, StringMessage),
    string(<<minLength(1, MinLengthMessage(1)), trim>>, StringMessage),
    string(<<trim, uppercase, maxLength(1, MaxLengthMessage(1))>>, StringMessage) }

PipelineInputs ==
  { Num(0 - 1), Num(0), Num(1), Num(2), Num(5), NaN, Undefined,
    Str(<<>>), Str(<<" ">>), Str(<<"x">>), Str(<<" ", "x">>), Str(<<"x", "y">>) }

\* whether the value is of the type the schema's pipes are written for
Pipeable(S, x) ==
  IF S.kind = "string" THEN isString(x) ELSE isNumber(x) /\ NumberIsFinite(x)

InitP ==
  /\ schema \in PipelineSchemas
  /\ input = Undefined
  /\ outcome = NoOutcome
  /\ nextId = FirstId
  /\ baseId = FirstId
  /\ calls = 0
  /\ lenientDates = FALSE
  /\ derived = NoSchema
  /\ request = NoRequest
  /\ touched = FALSE
  /\ piped = NoRun
  /\ option = NoOption
  /\ unwrapped = NoUnwrap

\* runPipeline(x, pipeline) with the pipeline of the schema
RunPipeline(x) ==
  /\ Pipeable(schema, x)
  /\ piped' = [done |-> TRUE, value |-> x,
               res |-> runPipeline(x, schema.pipeline).res,
               ran |-> runPipeline(x, schema.pipeline).ran]
  /\ UNCHANGED <<schema, input, outcome, nextId, baseId, calls, lenientDates, derived,
                 request, touched, option, unwrapped>>

NextP ==
  \/ \E x \in PipelineInputs : Parse(x)
  \/ \E x \in PipelineInputs : RunPipeline(x)

SpecP == InitP /\ [][NextP]_vars

\* the pipe of a pipeline of one pipe, and the number it was run on
OnePipe == schema.pipeline[1]
RanOne(name) == piped.done /\ Len(schema.pipeline) = 1 /\ OnePipe.p = name

\* C23: clamp(min, max) never fails; for min <= max it gives v when
\* min <= v <= max, min when v < min and max when v > max.  min(n) fails
\* exactly for v < n and max(n) exactly for v > n, with Ok(v) otherwise: the
\* bound itself passes.
C23_ClampMinMax ==
  LET v == piped.value.n
      r == piped.res
  IN /\ RanOne("clamp") =>
          /\ r.ok
          /\ OnePipe.a <= OnePipe.b =>
               /\ (OnePipe.a <= v /\ v <= OnePipe.b) => r.value = Num(v)
               /\ v < OnePipe.a => r.value = Num(OnePipe.a)
               /\ v > OnePipe.b => r.value = Num(OnePipe.b)
     /\ RanOne("min") =>
          IF v < OnePipe.a THEN r = PipeErr(OnePipe.message) ELSE r = PipeOk(Num(v))
     /\ RanOne("max") =>
          IF v > OnePipe.a THEN r = PipeErr(OnePipe.message) ELSE r = PipeOk(Num(v))

\* clamp(0, 1) brought 5 down to 1
C23_Witness ==
  /\ RanOne("clamp")
  /\ OnePipe.a <= OnePipe.b
  /\ piped.value.n > OnePipe.b
  /\ piped.res = PipeOk(Num(OnePipe.b))

\* the first pipe at or after position k that fails when the pipes from k
\* on are run in order from the value acc, each on the value of the one
\* before; 0 when none fails
RECURSIVE FirstFailure(_, _, _)
FirstFailure(p, acc, k) ==
  IF k > Len(p) THEN 0
  ELSE LET r == ApplyPipe(p[k], acc)
       IN IF r.ok THEN FirstFailure(p, r.value, k + 1) ELSE k

\* the value after the first k pipes, all of them passing
RECURSIVE ValueAfter(_, _, _)
ValueAfter(p, v, k) == IF k = 0 THEN v ELSE ApplyPipe(p[k], ValueAfter(p, v, k - 1)).value

\* C27: the pipes run left to right, each on the value of the one before;
\* the run stops at the first failing pipe, whose message is the failure,
\* and no later pipe is invoked; when all pass the result is the last
\* value, and an empty pipeline gives back its input.
C27_PipelineOrder ==
  piped.done =>
    LET p == schema.pipeline
        k == FirstFailure(p, piped.value, 1)
    IN /\ k = 0 => piped.res = PipeOk(ValueAfter(p, piped.value, Len(p))) /\ piped.ran = Len(p)
       /\ k # 0 => piped.res = PipeErr(p[k].message) /\ piped.ran = k
       /\ p = <<>> => piped.res = PipeOk(piped.value)

\* the first of two pipes failed and the second, which would have failed
\* too, was not invoked
C27_Witness ==
  /\ piped.done
  /\ Len(schema.pipeline) = 2
  /\ piped.ran = 1
  /\ ~piped.res.ok
  /\ ~ApplyPipe(schema.pipeline[2], piped.value).ok
  /\ schema.pipeline[2].message # piped.res.message

\* C28: when a pipe of a string or number schema fails, parse gives an
\* error with the empty path, the message of that pipe, and as input the
\* value handed to parse, not the value the earlier pipes made of it.
C28_PipeFailure ==
  (Called /\ schema.kind \in {"string", "number"} /\ Pipeable(schema, input)) =>
    LET k == FirstFailure(schema.pipeline, input, 1)
    IN k # 0 => /\ outcome.kind = "err"
                /\ outcome.err = ParseError(<<>>, schema.pipeline[k].message, input)

\* trim then minLength(1) on a blank string: the error holds the blank
C28_Witness ==
  /\ Called
  /\ schema.kind = "string"
  /\ isString(input)
  /\ FirstFailure(schema.pipeline, input, 1) = 2
  /\ schema.pipeline[1].p = "trim"
  /\ StringTrim(input.s) # input.s
  /\ outcome.kind = "err"
  /\ outcome.err.input = input

(***************************************************************************)
(* Tuples                                                                  *)
(***************************************************************************)

\* C24: tuple rejects an input that is not an array with its own message
\* and the empty path; on an array it validates position i with schemas[i],
\* in index order; on success the value is an array of exactly
\* schemas.length elements, element i the value schemas[i] gave for input[i].
C24_Tuple ==
  (Called /\ schema.kind = "tuple") =>
    IF ~isArray(input)
    THEN outcome.kind = "err" /\ outcome.err = ParseError(<<>>, schema.message, input)
    ELSE LET direct == DirectCalls(outcome.log)
             n == Len(schema.schemas)
         IN /\ Len(direct) <= n
            /\ \A j \in 1..Len(direct) :
                 /\ direct[j].at = <<ToString(j - 1)>>
                 /\ direct[j].name = schema.schemas[j].name
                 /\ direct[j].input = GetIndex(input, j - 1)
            /\ outcome.kind = "ok" =>
                 /\ outcome.value.t = "array"
                 /\ Len(outcome.value.a) = n
                 /\ Len(direct) = n
                 /\ \A i \in 1..n : \E h \in CallIds :
                      LET r == parseAt(schema.schemas[i], GetIndex(input, i - 1), h)
                      IN r.kind = "ok" /\ r.value = outcome.value.a[i]

\* a tuple of schemas of different kinds accepted an array
C24_Witness ==
  /\ Called
  /\ schema.kind = "tuple"
  /\ isArray(input)
  /\ outcome.kind = "ok"
  /\ Len(outcome.value.a) >= 2
  /\ schema.schemas[1].name # schema.schemas[2].name

\* the array with exactly n positions: the first n elements, undefined for
\* the positions the array does not have
Resized(x, n) == Arr(x.id, [i \in 1..n |-> GetIndex(x, i - 1)])

\* C30: tuple does not compare lengths.  Positions from schemas.length on
\* are never validated and are absent from the result, so a longer array
\* fares as its first schemas.length elements do; a missing position of a
\* shorter array is validated as undefined, and fails with its index in
\* front of the path.
C30_TupleLengths ==
  (Called /\ schema.kind = "tuple" /\ isArray(input)) =>
    LET n == Len(schema.schemas)
        m == Len(input.a)
        direct == DirectCalls(outcome.log)
        resized == parseAt(schema, Resized(input, n), baseId)
    IN /\ \A j \in 1..Len(outcome.log) :
            outcome.log[j].at # <<>> => IndexOfKey(outcome.log[j].at[1]) < n
       /\ outcome.kind = resized.kind
       /\ outcome.value = resized.value
       /\ outcome.err = resized.err
       /\ \A j \in 1..Len(direct) : j > m => direct[j].input = Undefined
       /\ (outcome.kind = "err" /\ Len(direct) > m) =>
            /\ outcome.err.path[1] = ToString(Len(direct) - 1)
            /\ Len(outcome.err.path) = 1 => outcome.err.input = Undefined

\* an array longer than the tuple was accepted, and its last element dropped
C30_Witness ==
  /\ Called
  /\ schema.kind = "tuple"
  /\ isArray(input)
  /\ Len(input.a) > Len(schema.schemas)
  /\ outcome.kind = "ok"
  /\ Len(outcome.value.a) < Len(input.a)

(***************************************************************************)
(* Lists                                                                   *)
(***************************************************************************)

\* C25: list rejects an input that is not an array with its own message
\* and the empty path; an array whose elements are all valid gives a List
\* with as many elements as the array, element i the value the item schema
\* gave for input[i], in the order of the array.
C25_List ==
  (Called /\ schema.kind = "list") =>
    IF ~isArray(input)
    THEN outcome.kind = "err" /\ outcome.err = ParseError(<<>>, schema.message, input)
    ELSE (\A i \in 1..Len(input.a) : parseAt(schema.item, input.a[i], baseId).kind = "ok") =>
           /\ outcome.kind = "ok"
           /\ outcome.value.t = "List"
           /\ Len(outcome.value.a) = Len(input.a)
           /\ \A i \in 1..Len(input.a) : \E h \in CallIds :
                outcome.value.a[i] = parseAt(schema.item, input.a[i], h).value

\* a list of objects accepted an array of two of them
C25_Witness ==
  /\ Called
  /\ schema.kind = "list"
  /\ isArray(input)
  /\ Len(input.a) >= 2
  /\ outcome.kind = "ok"
  /\ outcome.value.t = "List"
  /\ outcome.value.a[1] # outcome.value.a[2]

(***************************************************************************)
(* Option on its own                                                       *)
(***************************************************************************)

\* Option.from(value): new Option(value), whatever the value
OptionFrom(value, id) == [t |-> "Option", id |-> id, value |-> value]

\* opt.match(onSome, onNone): which of the two is called, and with what
OptionMatch(opt) ==
  IF isDefined(opt.value) THEN [some |-> TRUE, value |-> opt.value]
  ELSE [some |-> FALSE, value |-> Undefined]

isSome(opt) == IF OptionMatch(opt).some THEN TRUE ELSE FALSE
isNone(opt) == IF OptionMatch(opt).some THEN FALSE ELSE TRUE

\* the message of the Error, written here without its backquotes
UnwrapMessage == "called Option.unwrap() on a None value"

\* opt.unwrap(): the value, or the Error that raise throws
OptionUnwrap(opt) ==
  LET m == OptionMatch(opt)
  IN IF m.some THEN [kind |-> "returned", value |-> m.value, message |-> ""]
     ELSE [kind |-> "thrown", value |-> Undefined, message |-> UnwrapMessage]

\* the values Some is typed to take
DefinedInputs == { x \in Inputs : x.t \notin {"null", "undefined"} }

InitO ==
  /\ schema = S_string
  /\ input = Undefined
  /\ outcome = NoOutcome
  /\ nextId = FirstId
  /\ baseId = FirstId
  /\ calls = 0
  /\ lenientDates = FALSE
  /\ derived = NoSchema
  /\ request = NoRequest
  /\ touched = FALSE
  /\ piped = NoRun
  /\ option = NoOption
  /\ unwrapped = NoUnwrap

\* the Option made takes the place of the one before, which is let go
Made(how, given, opt) ==
  /\ option' = [made |-> TRUE, how |-> how, given |-> given, opt |-> opt]
  /\ unwrapped' = NoUnwrap
  /\ UNCHANGED <<schema, input, outcome, nextId, baseId, calls, lenientDates, derived,
                 request, touched, piped>>

FromCall(x) == Made("from", x, OptionFrom(x, FirstId))

SomeCall(x) == Made("Some", x, Some(x, FirstId))

NoneUse == Made("None", Undefined, None)

UnwrapCall ==
  /\ option.made
  /\ unwrapped' = OptionUnwrap(option.opt)
  /\ UNCHANGED <<schema, input, outcome, nextId, baseId, calls, lenientDates, derived,
                 request, touched, piped, option>>

NextO ==
  \/ \E x \in Inputs : FromCall(x)
  \/ \E x \in DefinedInputs : SomeCall(x)
  \/ NoneUse
  \/ UnwrapCall

SpecO == InitO /\ [][NextO]_vars

\* C26: Option.from(v) is a None for null and undefined and a Some holding
\* v for every other value; of isSome() and isNone() exactly one is true of
\* every Option; unwrap() returns the value of a Some and throws on a None.
C26_Option ==
  option.made =>
    LET opt == option.opt
        absent == option.given \in {Null, Undefined}
    IN /\ isSome(opt) # isNone(opt)
       /\ isNone(opt) = absent
       /\ isSome(opt) => opt.value = option.given
       /\ unwrapped.kind # "none" =>
            IF absent THEN unwrapped.kind = "thrown"
            ELSE unwrapped.kind = "returned" /\ unwrapped.value = option.given

\* Option.from(null) was made and its unwrap() threw
C26_Witness ==
  /\ option.made
  /\ option.how = "from"
  /\ option.given = Null
  /\ option.opt.id # NoneId
  /\ isNone(option.opt)
  /\ unwrapped.kind = "thrown"

(***************************************************************************)
(* coerce around optional and defaulted                                    *)
(***************************************************************************)

\* C29: optional(S) and defaulted(S, d) carry the name of S, so coerce
\* builds a schema from them exactly when it builds one from S, with the
\* coercion of S; parse coerces the input first and tests for absence
\* after: the outcome is that of optional(S) or defaulted(S, d) on the
\* coerced value, so null or undefined counts as absent only when its
\* coerced value is null or undefined still.
C29_CoerceBeforeAbsence ==
  /\ (request.op = "coerce" /\ request.subject.kind \in {"optional", "defaulted"}) =>
       /\ request.subject.name = request.subject.inner.name
       /\ (derived.kind = "thrown") = (coerce(request.subject.inner).kind = "thrown")
       /\ derived.kind # "thrown" => derived.coerceFn = request.subject.inner.name
  /\ (Called /\ schema.kind = "coerce" /\ schema.inner.kind \in {"optional", "defaulted"}) =>
       LET S == schema.inner.inner
           c == COERCE(S.name, input, baseId, lenientDates)
           direct == parseAt(S, c.value, c.next)
           wraps == schema.inner.kind = "optional"
       IN /\ c.thrown => outcome.kind = "throw"
          /\ (~c.thrown /\ c.value \in Absent) =>
               /\ outcome.kind = "ok"
               /\ outcome.value = IF wraps THEN None ELSE schema.inner.defaultValue
          /\ (~c.thrown /\ c.value \notin Absent) =>
               /\ outcome.kind = direct.kind
               /\ outcome.err = direct.err
               /\ outcome.kind = "ok" =>
                    IF wraps
                    THEN outcome.value.t = "Option" /\ outcome.value.value = direct.value
                    ELSE outcome.value = direct.value

\* undefined given to coerce(optional(number())): the coercion made NaN of
\* it, and the number schema rejected that instead of None being returned
C29_Witness ==
  /\ Called
  /\ schema.kind = "coerce"
  /\ schema.inner.kind = "optional"
  /\ input = Undefined
  /\ outcome.kind = "err"
  /\ outcome.err.input = NaN

====
